---- MODULE Spec2Model ----
(***************************************************************************)
(* Offline-first synchronisation core of cravings-pos.                     *)
(*                                                                         *)
(* The Local Store (Dexie tables), the remote backend (Supabase tables),   *)
(* the sync engine (performFullSync = push orders, push inventory, pull),  *)
(* the order creation workflow and the order status update are modelled    *)
(* at the granularity of the source's await points: every awaited Local    *)
(* Store operation and every awaited remote call is one step, so that the  *)
(* asynchronous operations interleave as they do on the event loop.        *)
(*                                                                         *)
(* db.<table>.where('synced').equals(0) is modelled as what the source's   *)
(* comments say it returns: the rows whose synced flag is false.           *)
(***************************************************************************)
EXTENDS Integers, Sequences, FiniteSets, TLC

(* ------------------------------ bounds -------------------------------- *)
\* number of orders createOrderOffline may mint
MaxLocal == 1
\* number of order rows the remote backend may hold
MaxRemote == 3
\* number of order_items rows the remote backend may hold
MaxRemoteItems == 3
\* number of items of one new order
MaxItems == 1
\* last value of the clock
MaxTime == 1
\* number of sync cycles performFullSync may start
MaxCycles == 2

(* --------------------------- program constants ------------------------ *)
\* pullLatestFromSupabase: weekAgo.setDate(weekAgo.getDate() - 7)
WeekDays == 7
\* pullLatestFromSupabase: .limit(30) on daily_closing_logs
ClosingLimit == 30
\* offlineDatabase generateOrderNumber: const offlinePrefix = 9000000
offlinePrefix == 9000000

(* ------------------------------- values ------------------------------- *)
Null == "null"
Statuses == {"pending", "preparing", "ready", "completed", "cancelled"}
\* two of the callers of performFullSync, which all call it the same way: a
\* timer of setupAutoSync and the 'sync now' button
Callers == {"timer", "manual"}
\* the terminals that run the order creation workflow
Creators == {"pos"}
\* every running instance of syncOrdersToSupabase: one per performFullSync
\* call, one per createOrderOffline background push
Pushers == Callers \cup Creators

\* an id is a string; the model keeps its prefix and the rest apart
Id(p, n) == [prefix |-> p, n |-> n]
\* String.prototype.startsWith on an id
StartsWith(id, p) == id.prefix = p
\* order of string keys in an index: uuids (hex digits) sort before
\* "local_..." which sort before "offline_..."
IdKey(id) ==
    (CASE id.prefix = "uuid" -> 0
       [] id.prefix = "local_" -> 100
       [] OTHER -> 200) + id.n

VARIABLES
    \* navigator.onLine
    onLine,
    \* the clock read by new Date()
    now,
    \* Local Store tables (sets of rows, keyed by id)
    orders, orderItems, menuItems, inventoryItems, dailyClosings,
    stockVerifications,
    \* settings['lastSyncTime'] (Null when absent)
    lastSyncTime,
    \* remote backend tables
    sb_orders, sb_order_items, sb_menu_items, sb_inventory_items,
    sb_daily_closing_logs, sb_stock_verifications,
    \* module-level busy flag of syncService
    isSyncing,
    \* position of every performFullSync call
    syncPc,
    \* state of every syncOrdersToSupabase run
    push,
    \* state of every syncInventoryToSupabase run
    invPush,
    \* state of every pullLatestFromSupabase run
    pull,
    \* state of every createOrderOffline run
    create,
    \* state of the order status update in flight
    su,
    \* the last console message of performFullSync
    syncLog,
    \* history: how the latest call of performFullSync by every caller went
    \* ("dropped", "skipped", "running", "failed", "completed")
    outcome,
    \* number of ids createOrderOffline has minted
    minted,
    \* number of sync cycles that performFullSync has started
    started,
    \* history: for every remote order a push created, the id of the local
    \* row (localOrder.id) it was created from
    origin,
    \* history: the unsynced rows of the Local Store when the pull in
    \* progress was called
    atPull,
    \* history: the latest change of status made to an order while a push of
    \* orders held the row it had read of it
    changed,
    \* history: the number of calls of pullLatestFromSupabase that returned,
    \* whether the backend answered all their selects, and the tables of the
    \* Local Store when the latest of them returned
    pulled,
    \* state of every run of a realtime INSERT handler
    rt,
    \* the cart store: items, billType, discount
    cart,
    \* the order made from the cart at checkout, with its items, in the Local
    \* Store and on the backend
    bill,
    \* state of the submission of a daily closing in flight
    closing,
    \* localStorage['kitchen-pos-pending-operations'], the pending operation
    \* queue
    pending,
    \* state of the useCreateOrder mutation in flight
    uc,
    \* state of the useSyncPending mutation in flight
    sp,
    \* history: the parts of every pending operation ("order", "items") that
    \* the backend has confirmed
    applied,
    \* the entries of localStorage under the cache prefix and under the
    \* expiry prefix, by cache key
    cacheStore,
    \* the last call of a cache function: its name, key, the clock when it
    \* was called and what it returned
    ret,
    \* setupAutoSync: whether it was called, whether its listeners are
    \* registered, whether its teardown has run, the module-level syncTimeout
    \* and the timers that are armed
    auto,
    \* history: the 'online' events so far, the clock at the latest of them,
    \* whether an 'offline' event followed it, and the latest timer callback
    \* that ran
    fired,
    \* OfflineStatusBar.handleSync: whether it awaits performFullSync, and the
    \* toast it has shown last
    hs,
    \* state of the stock adjustment in flight (StockManagementPage), and the
    \* number of adjustments so far
    adj

localVars == <<orders, orderItems, menuItems, inventoryItems, dailyClosings,
               stockVerifications, lastSyncTime>>
remoteVars == <<sb_orders, sb_order_items, sb_menu_items, sb_inventory_items,
                sb_daily_closing_logs, sb_stock_verifications>>
procVars == <<isSyncing, syncPc, push, invPush, pull, create, su, syncLog, outcome,
              minted, started>>
histVars == <<origin, atPull, changed>>
\* the state of the parts of the program next to the sync engine
\* the pending operation queue and the mutations that work on it
pendVars == <<pending, uc, sp, applied>>
\* the cache and the last call on it
cacheVars == <<cacheStore, ret>>
\* setupAutoSync and what is built on performFullSync
moreVars == <<auto, fired, hs, adj>>
extVars == <<pulled, rt, cart, bill, closing, pendVars, cacheVars, moreVars>>
\* the state of the sync engine and of the tables it works on
coreVars == <<onLine, now, localVars, remoteVars, procVars, histVars>>
vars == <<onLine, now, localVars, remoteVars, procVars, histVars, extVars>>

(* ------------------------- Dexie table operations --------------------- *)
\* Table.get(id): the row, or Null
Get(T, id) == IF \E r \in T : r.id = id THEN CHOOSE r \in T : r.id = id ELSE Null
Has(T, id) == \E r \in T : r.id = id
\* Table.put(row): insert or replace by key
Put(T, row) == {r \in T : r.id # row.id} \cup {row}
\* Table.bulkPut(rows)
BulkPut(T, rows) == {r \in T : \A n \in rows : n.id # r.id} \cup rows
\* Table.delete(id)
Delete(T, id) == {r \in T : r.id # id}
\* Table.where('synced').equals(0).toArray()
Unsynced(T) == {r \in T : r.synced = FALSE}

RECURSIVE ToArray(_)
\* toArray(): the rows in key order
ToArray(S) ==
    IF S = {} THEN <<>>
    ELSE LET m == CHOOSE x \in S : \A y \in S : IdKey(x.id) <= IdKey(y.id)
         IN <<m>> \o ToArray(S \ {m})

Max(S) == IF S = {} THEN 0 ELSE CHOOSE x \in S : \A y \in S : y <= x

(* ------------------------- rows of the tables ------------------------- *)
\* LocalOrder; customer_name and total_amount stand for the business fields
\* that every path copies verbatim (customer, table, bill type, amounts,
\* payment method, creator)
OrderRow(id, num, cust, total, status, created, updated, synced, err) ==
    [id |-> id, order_number |-> num, customer_name |-> cust,
     total_amount |-> total, status |-> status, created_at |-> created,
     updated_at |-> updated, synced |-> synced, sync_error |-> err]
\* LocalOrderItem
ItemRow(id, oid, name, price, synced) ==
    [id |-> id, order_id |-> oid, menu_item_name |-> name,
     total_price |-> price, synced |-> synced]
\* a row of the remote orders table
SbOrderRow(id, num, cust, total, status, created, updated) ==
    [id |-> id, order_number |-> num, customer_name |-> cust,
     total_amount |-> total, status |-> status, created_at |-> created,
     updated_at |-> updated]
\* a row of the remote order_items table
SbItemRow(id, oid, price) == [id |-> id, order_id |-> oid, total_price |-> price]

\* the business fields of an order row, local or remote
Business(o) ==
    [customer_name |-> o.customer_name, total_amount |-> o.total_amount,
     status |-> o.status, created_at |-> o.created_at]

(* ----------------------- syncOrdersToSupabase ------------------------- *)
PushIdle ==
    [pc |-> "idle", queue |-> <<>>, localOrder |-> Null, items |-> {},
     newOrder |-> Null, todo |-> <<>>, success |-> 0, failed |-> 0]

\* the rows the push selects: db.orders.where('synced').equals(0).toArray()
PushSelection(T) == Unsynced(T)

\* the call itself: runs up to the first await, the query for unsynced orders
PushStarted == [PushIdle EXCEPT !.pc = "select"]

\* const unsyncedOrders = await db.orders.where('synced').equals(0).toArray()
PushSelect(p) ==
    /\ push[p].pc = "select"
    /\ LET q == ToArray(PushSelection(orders)) IN
       push' = [push EXCEPT ![p].queue = q,
                            ![p].pc = IF q = <<>> THEN "return" ELSE "items"]
    /\ UNCHANGED <<onLine, now, localVars, remoteVars, isSyncing, syncPc,
                   invPush, pull, create, su, syncLog, outcome,
                   minted, origin, atPull, changed, extVars, started>>

\* const orderItems = await db.orderItems.where('order_id').equals(localOrder.id)
PushReadItems(p) ==
    /\ push[p].pc = "items"
    /\ LET lo == Head(push[p].queue) IN
       push' = [push EXCEPT ![p].localOrder = lo,
                            ![p].items = {i \in orderItems : i.order_id = lo.id},
                            ![p].pc = "insertOrder"]
    /\ UNCHANGED <<onLine, now, localVars, remoteVars, isSyncing, syncPc,
                   invPush, pull, create, su, syncLog, outcome,
                   minted, origin, atPull, changed, extVars, started>>

\* the row supabase.from('orders').insert({...}).select().single() creates:
\* the backend assigns id and order_number
NewSbOrder(lo) ==
    SbOrderRow(Id("uuid", Cardinality(sb_orders) + 1),
               Max({r.order_number : r \in sb_orders}) + 1,
               lo.customer_name, lo.total_amount, lo.status, lo.created_at, now)

\* await supabase.from('orders').insert(...); if (orderError) throw orderError
PushInsertOrder(p) ==
    /\ push[p].pc = "insertOrder"
    /\ \/ /\ onLine
          /\ Cardinality(sb_orders) < MaxRemote
          /\ LET row == NewSbOrder(push[p].localOrder) IN
             /\ sb_orders' = sb_orders \cup {row}
             /\ origin' = origin \cup {<<row.id, push[p].localOrder.id>>}
             /\ push' = [push EXCEPT ![p].newOrder = row,
                           ![p].pc = IF push[p].items = {} THEN "delete"
                                     ELSE "insertItems"]
       \/ /\ push' = [push EXCEPT ![p].pc = "catch"]
          /\ UNCHANGED <<sb_orders, origin, atPull, changed>>
    /\ UNCHANGED <<onLine, now, localVars, sb_order_items, sb_menu_items,
                   sb_inventory_items, sb_daily_closing_logs,
                   sb_stock_verifications, isSyncing, syncPc, invPush, pull,
                   create, su, syncLog, outcome, minted, atPull, changed, extVars, started>>

RECURSIVE NewSbItems(_, _, _)
\* itemsToInsert as stored by the backend, which assigns the ids
NewSbItems(items, oid, k) ==
    IF items = <<>> THEN {}
    ELSE {SbItemRow(Id("uuid", k + 1), oid, Head(items).total_price)}
         \cup NewSbItems(Tail(items), oid, k + 1)

\* await supabase.from('order_items').insert(itemsToInsert);
\* if (itemsError) throw itemsError
PushInsertItems(p) ==
    /\ push[p].pc = "insertItems"
    /\ \/ /\ onLine
          /\ Cardinality(sb_order_items) + Cardinality(push[p].items)
                <= MaxRemoteItems
          /\ sb_order_items' = sb_order_items \cup
                NewSbItems(ToArray(push[p].items), push[p].newOrder.id,
                           Cardinality(sb_order_items))
          /\ push' = [push EXCEPT ![p].pc = "delete"]
       \/ /\ push' = [push EXCEPT ![p].pc = "catch"]
          /\ UNCHANGED sb_order_items
    /\ UNCHANGED <<onLine, now, localVars, sb_orders, sb_menu_items,
                   sb_inventory_items, sb_daily_closing_logs,
                   sb_stock_verifications, isSyncing, syncPc, invPush, pull,
                   create, su, syncLog, outcome,
                   minted, origin, atPull, changed, extVars, started>>

\* await db.orders.delete(localOrder.id)
PushDelete(p) ==
    /\ push[p].pc = "delete"
    /\ orders' = Delete(orders, push[p].localOrder.id)
    /\ push' = [push EXCEPT ![p].pc = "put"]
    /\ UNCHANGED <<onLine, now, orderItems, menuItems, inventoryItems,
                   dailyClosings, stockVerifications, lastSyncTime, remoteVars,
                   isSyncing, syncPc, invPush, pull, create, su, syncLog, outcome,
                   minted, origin, atPull, changed, extVars, started>>

\* a remap that keeps the local id of the row
RemappedInPlace(lo, no) ==
    [lo EXCEPT !.order_number = no.order_number, !.synced = TRUE,
               !.sync_error = Null]

\* {...localOrder, id: newOrder.id, order_number: newOrder.order_number,
\*  synced: true, sync_error: undefined}
Remapped(lo, no) ==
    [lo EXCEPT !.id = no.id, !.order_number = no.order_number,
               !.synced = TRUE, !.sync_error = Null]

\* await db.orders.put({...})
PushPut(p) ==
    /\ push[p].pc = "put"
    /\ orders' = Put(orders, Remapped(push[p].localOrder, push[p].newOrder))
    /\ push' = [push EXCEPT ![p].todo = ToArray(push[p].items),
                            ![p].pc = "deleteItems"]
    /\ UNCHANGED <<onLine, now, orderItems, menuItems, inventoryItems,
                   dailyClosings, stockVerifications, lastSyncTime, remoteVars,
                   isSyncing, syncPc, invPush, pull, create, su, syncLog, outcome,
                   minted, origin, atPull, changed, extVars, started>>

\* a loop that ends at the first iteration that has ended
PushAbort(ps) ==
    [ps EXCEPT !.queue = <<>>, !.localOrder = Null, !.items = {},
               !.newOrder = Null, !.todo = <<>>, !.pc = "return"]

\* the end of one iteration of the for loop over unsyncedOrders
PushAdvance(ps) ==
    LET q == Tail(ps.queue) IN
    [ps EXCEPT !.queue = q, !.localOrder = Null, !.items = {},
               !.newOrder = Null, !.todo = <<>>,
               !.pc = IF q = <<>> THEN "return" ELSE "items"]

\* for (const item of orderItems) await db.orderItems.delete(item.id);
\* results.success++
PushDeleteItems(p) ==
    /\ push[p].pc = "deleteItems"
    /\ \/ /\ push[p].todo # <<>>
          /\ orderItems' = Delete(orderItems, Head(push[p].todo).id)
          /\ push' = [push EXCEPT ![p].todo = Tail(push[p].todo)]
       \/ /\ push[p].todo = <<>>
          /\ push' = [push EXCEPT
                        ![p] = PushAdvance([push[p] EXCEPT
                                              !.success = push[p].success + 1])]
          /\ UNCHANGED orderItems
    /\ UNCHANGED <<onLine, now, orders, menuItems, inventoryItems,
                   dailyClosings, stockVerifications, lastSyncTime, remoteVars,
                   isSyncing, syncPc, invPush, pull, create, su, syncLog, outcome,
                   minted, origin, atPull, changed, extVars, started>>

\* catch: await db.orders.update(localOrder.id, {sync_error: message});
\* results.failed++
PushCatch(p) ==
    /\ push[p].pc = "catch"
    /\ orders' = {IF r.id = push[p].localOrder.id
                  THEN [r EXCEPT !.sync_error = "error"] ELSE r : r \in orders}
    /\ push' = [push EXCEPT
                  ![p] = PushAdvance([push[p] EXCEPT
                                        !.failed = push[p].failed + 1])]
    /\ UNCHANGED <<onLine, now, orderItems, menuItems, inventoryItems,
                   dailyClosings, stockVerifications, lastSyncTime, remoteVars,
                   isSyncing, syncPc, invPush, pull, create, su, syncLog, outcome,
                   minted, origin, atPull, changed, extVars, started>>


(* ---------------------- syncInventoryToSupabase ----------------------- *)
\* LocalInventoryItem; name stands for name, unit, minimum_stock, cost_per_unit
InvRow(id, name, stock, active, synced, updated) ==
    [id |-> id, name |-> name, current_stock |-> stock, is_active |-> active,
     synced |-> synced, updated_at |-> updated]
SbInvRow(id, name, stock, active) ==
    [id |-> id, name |-> name, current_stock |-> stock, is_active |-> active]

InvIdle == [pc |-> "idle", queue |-> <<>>, success |-> 0, failed |-> 0]

\* const unsyncedItems = await db.inventoryItems.where('synced').equals(0).toArray()
InvSelect(c) ==
    /\ invPush[c].pc = "select"
    /\ LET q == ToArray(Unsynced(inventoryItems)) IN
       invPush' = [invPush EXCEPT ![c].queue = q,
                      ![c].pc = IF q = <<>> THEN "return" ELSE "update"]
    /\ UNCHANGED <<onLine, now, localVars, remoteVars, isSyncing, syncPc, push,
                   pull, create, su, syncLog, outcome,
                   minted, origin, atPull, changed, extVars, started>>

\* await supabase.from('inventory_items').update({current_stock}).eq('id', item.id);
\* if (error) throw error
InvUpdate(c) ==
    /\ invPush[c].pc = "update"
    /\ LET item == Head(invPush[c].queue) IN
       \/ /\ onLine
          /\ sb_inventory_items' =
                {IF r.id = item.id
                 THEN [r EXCEPT !.current_stock = item.current_stock]
                 ELSE r : r \in sb_inventory_items}
          /\ invPush' = [invPush EXCEPT ![c].pc = "mark"]
       \/ /\ LET q == Tail(invPush[c].queue) IN
             invPush' = [invPush EXCEPT ![c].queue = q,
                            ![c].failed = invPush[c].failed + 1,
                            ![c].pc = IF q = <<>> THEN "return" ELSE "update"]
          /\ UNCHANGED sb_inventory_items
    /\ UNCHANGED <<onLine, now, localVars, sb_orders, sb_order_items,
                   sb_menu_items, sb_daily_closing_logs, sb_stock_verifications,
                   isSyncing, syncPc, push, pull, create, su, syncLog, outcome,
                   minted, origin, atPull, changed, extVars, started>>

\* await db.inventoryItems.update(item.id, {synced: true}); results.success++
InvMark(c) ==
    /\ invPush[c].pc = "mark"
    /\ LET item == Head(invPush[c].queue)
           q == Tail(invPush[c].queue) IN
       /\ inventoryItems' = {IF r.id = item.id THEN [r EXCEPT !.synced = TRUE]
                             ELSE r : r \in inventoryItems}
       /\ invPush' = [invPush EXCEPT ![c].queue = q,
                         ![c].success = invPush[c].success + 1,
                         ![c].pc = IF q = <<>> THEN "return" ELSE "update"]
    /\ UNCHANGED <<onLine, now, orders, orderItems, menuItems, dailyClosings,
                   stockVerifications, lastSyncTime, remoteVars, isSyncing,
                   syncPc, push, pull, create, su, syncLog, outcome,
                   minted, origin, atPull, changed, extVars, started>>

(* ----------------------- pullLatestFromSupabase ----------------------- *)
\* LocalMenuItem; name stands for name, description, category, price, ...
MenuRow(id, name, avail, synced, updated) ==
    [id |-> id, name |-> name, is_available |-> avail, synced |-> synced,
     updated_at |-> updated]
SbMenuRow(id, name, avail) == [id |-> id, name |-> name, is_available |-> avail]
\* LocalDailyClosing; notes stands for submitted_by, totals, notes
ClosingRow(id, date, notes, synced) ==
    [id |-> id, closing_date |-> date, notes |-> notes, synced |-> synced]
SbClosingRow(id, date, notes) == [id |-> id, closing_date |-> date, notes |-> notes]
\* LocalStockVerification
VerifRow(id, cid, stock, synced) ==
    [id |-> id, daily_closing_id |-> cid, physical_stock |-> stock,
     synced |-> synced]
SbVerifRow(id, cid, stock) ==
    [id |-> id, daily_closing_id |-> cid, physical_stock |-> stock]

\* fetchError records that a select of this pull was answered with an error
PullIdle ==
    [pc |-> "idle", data |-> {}, items |-> {}, unsynced |-> {}, todo |-> <<>>,
     todoItems |-> <<>>, fetchError |-> FALSE]
\* the call itself: runs up to the first await, the fetch of menu_items
PullStarted == [PullIdle EXCEPT !.pc = "menuFetch"]

\* a remote select: the rows when the backend answers, {data: null, error}
\* when it answers with an error, or a rejected promise; `rows` is what the
\* query selects, `next` where the pull continues with data, `skip` where it
\* continues without
PullFetch(c, at, rows, next, skip) ==
    /\ pull[c].pc = at
    /\ \/ /\ onLine
          /\ pull' = [pull EXCEPT ![c].data = rows, ![c].pc = next]
       \/ pull' = [pull EXCEPT ![c].data = {}, ![c].pc = skip,
                                ![c].fetchError = TRUE]
       \/ pull' = [pull EXCEPT ![c] = [PullIdle EXCEPT !.pc = "throw"]]
    /\ UNCHANGED <<onLine, now, localVars, remoteVars, isSyncing, syncPc, push,
                   invPush, create, su, syncLog, outcome,
                   minted, origin, atPull, changed, extVars, started>>

\* supabase.from('menu_items').select('*').eq('is_available', true)
PullMenuFetch(c) ==
    PullFetch(c, "menuFetch", {r \in sb_menu_items : r.is_available},
              "menuClear", "invFetch")

\* await db.menuItems.clear()
PullMenuClear(c) ==
    /\ pull[c].pc = "menuClear"
    /\ menuItems' = {}
    /\ pull' = [pull EXCEPT ![c].pc = "menuPut"]
    /\ UNCHANGED <<onLine, now, orders, orderItems, inventoryItems,
                   dailyClosings, stockVerifications, lastSyncTime, remoteVars,
                   isSyncing, syncPc, push, invPush, create, su, syncLog, outcome,
                   minted, origin, atPull, changed, extVars, started>>

\* menuData.map(item => ({...item, synced: true, updated_at: now}))
PulledMenu(data, t) == {MenuRow(r.id, r.name, r.is_available, TRUE, t) : r \in data}

\* await db.menuItems.bulkPut(...)
PullMenuPut(c) ==
    /\ pull[c].pc = "menuPut"
    /\ menuItems' = BulkPut(menuItems, PulledMenu(pull[c].data, now))
    /\ pull' = [pull EXCEPT ![c].data = {}, ![c].pc = "invFetch"]
    /\ UNCHANGED <<onLine, now, orders, orderItems, inventoryItems,
                   dailyClosings, stockVerifications, lastSyncTime, remoteVars,
                   isSyncing, syncPc, push, invPush, create, su, syncLog, outcome,
                   minted, origin, atPull, changed, extVars, started>>

\* supabase.from('inventory_items').select('*').eq('is_active', true)
PullInvFetch(c) ==
    PullFetch(c, "invFetch", {r \in sb_inventory_items : r.is_active},
              "invRead", "ordFetch")

\* const unsyncedItems = await db.inventoryItems.where('synced').equals(0).toArray()
PullInvRead(c) ==
    /\ pull[c].pc = "invRead"
    /\ pull' = [pull EXCEPT ![c].unsynced = Unsynced(inventoryItems),
                            ![c].pc = "invClear"]
    /\ UNCHANGED <<onLine, now, localVars, remoteVars, isSyncing, syncPc, push,
                   invPush, create, su, syncLog, outcome,
                   minted, origin, atPull, changed, extVars, started>>

\* await db.inventoryItems.clear()
PullInvClear(c) ==
    /\ pull[c].pc = "invClear"
    /\ inventoryItems' = {}
    /\ pull' = [pull EXCEPT ![c].pc = "invPut"]
    /\ UNCHANGED <<onLine, now, orders, orderItems, menuItems, dailyClosings,
                   stockVerifications, lastSyncTime, remoteVars, isSyncing,
                   syncPc, push, invPush, create, su, syncLog, outcome,
                   minted, origin, atPull, changed, extVars, started>>

\* inventoryData.map(item => { const localItem = unsyncedItems.find(...);
\*   return {...item, current_stock: localItem ? localItem.current_stock
\*   : item.current_stock, synced: localItem ? false : true, updated_at: now} })
PulledInventory(data, unsyncedItems, t) ==
    {LET hasLocal == \E i \in unsyncedItems : i.id = r.id
         localItem == CHOOSE i \in unsyncedItems : i.id = r.id
     IN InvRow(r.id, r.name,
               IF hasLocal THEN localItem.current_stock ELSE r.current_stock,
               r.is_active, ~hasLocal, t) : r \in data}

\* await db.inventoryItems.bulkPut(...)
PullInvPut(c) ==
    /\ pull[c].pc = "invPut"
    /\ inventoryItems' =
          BulkPut(inventoryItems,
                  PulledInventory(pull[c].data, pull[c].unsynced, now))
    /\ pull' = [pull EXCEPT ![c].data = {}, ![c].unsynced = {},
                            ![c].pc = "ordFetch"]
    /\ UNCHANGED <<onLine, now, orders, orderItems, menuItems, dailyClosings,
                   stockVerifications, lastSyncTime, remoteVars, isSyncing,
                   syncPc, push, invPush, create, su, syncLog, outcome,
                   minted, origin, atPull, changed, extVars, started>>


\* supabase.from('orders').select('*, order_items (*)')
\*   .gte('created_at', weekAgo).order('created_at', {ascending: false})
RecentOrders == {r \in sb_orders : r.created_at >= now - WeekDays}

RECURSIVE NewestFirst(_)
\* the rows by created_at, newest first
NewestFirst(S) ==
    IF S = {} THEN <<>>
    ELSE LET m == CHOOSE x \in S : \A y \in S :
                     \/ x.created_at > y.created_at
                     \/ /\ x.created_at = y.created_at
                        /\ IdKey(x.id) <= IdKey(y.id)
         IN <<m>> \o NewestFirst(S \ {m})

PullOrdFetch(c) ==
    /\ pull[c].pc = "ordFetch"
    /\ \/ /\ onLine
          /\ pull' = [pull EXCEPT
                ![c].data = RecentOrders,
                ![c].items = {i \in sb_order_items :
                                \E r \in RecentOrders : r.id = i.order_id},
                ![c].pc = "ordRead"]
       \/ pull' = [pull EXCEPT ![c].data = {}, ![c].pc = "cloFetch",
                                ![c].fetchError = TRUE]
       \/ pull' = [pull EXCEPT ![c] = [PullIdle EXCEPT !.pc = "throw"]]
    /\ UNCHANGED <<onLine, now, localVars, remoteVars, isSyncing, syncPc, push,
                   invPush, create, su, syncLog, outcome,
                   minted, origin, atPull, changed, extVars, started>>

\* const unsyncedOrders = await db.orders.where('synced').equals(0).toArray();
\* const unsyncedOrderIds = new Set(unsyncedOrders.map(o => o.id))
PullOrdRead(c) ==
    /\ pull[c].pc = "ordRead"
    /\ pull' = [pull EXCEPT ![c].unsynced = {o.id : o \in Unsynced(orders)},
                            ![c].todo = NewestFirst(pull[c].data),
                            ![c].pc = "ordLoop"]
    /\ UNCHANGED <<onLine, now, localVars, remoteVars, isSyncing, syncPc, push,
                   invPush, create, su, syncLog, outcome,
                   minted, origin, atPull, changed, extVars, started>>

\* a pull that applies every remote order
PullAppliesAll(unsyncedOrderIds, id) == TRUE

\* the guard of the pull in front of db.orders.put:
\* if (!unsyncedOrderIds.has(order.id))
PullMayApply(unsyncedOrderIds, id) == id \notin unsyncedOrderIds

\* {...orderData, synced: true}
PulledOrder(r) ==
    OrderRow(r.id, r.order_number, r.customer_name, r.total_amount, r.status,
             r.created_at, r.updated_at, TRUE, Null)

\* for (const order of ordersData) if (!unsyncedOrderIds.has(order.id))
\*     await db.orders.put({...orderData, synced: true})
PullOrdLoop(c) ==
    /\ pull[c].pc = "ordLoop"
    /\ \/ /\ pull[c].todo = <<>>
          /\ pull' = [pull EXCEPT ![c].data = {}, ![c].items = {},
                                  ![c].unsynced = {}, ![c].pc = "cloFetch"]
          /\ UNCHANGED orders
       \/ /\ pull[c].todo # <<>>
          /\ ~PullMayApply(pull[c].unsynced, Head(pull[c].todo).id)
          /\ pull' = [pull EXCEPT ![c].todo = Tail(pull[c].todo)]
          /\ UNCHANGED orders
       \/ /\ pull[c].todo # <<>>
          /\ PullMayApply(pull[c].unsynced, Head(pull[c].todo).id)
          /\ LET r == Head(pull[c].todo) IN
             /\ orders' = Put(orders, PulledOrder(r))
             /\ pull' = [pull EXCEPT
                   ![c].todoItems =
                        ToArray({i \in pull[c].items : i.order_id = r.id}),
                   ![c].pc = "ordItems"]
    /\ UNCHANGED <<onLine, now, orderItems, menuItems, inventoryItems,
                   dailyClosings, stockVerifications, lastSyncTime, remoteVars,
                   isSyncing, syncPc, push, invPush, create, su, syncLog, outcome,
                   minted, origin, atPull, changed, extVars, started>>

\* {...item, menu_item_name: '', synced: true}
PulledItem(i) == ItemRow(i.id, i.order_id, "", i.total_price, TRUE)

\* for (const item of order_items) await db.orderItems.put({...})
PullOrdItems(c) ==
    /\ pull[c].pc = "ordItems"
    /\ \/ /\ pull[c].todoItems = <<>>
          /\ pull' = [pull EXCEPT ![c].todo = Tail(pull[c].todo),
                                  ![c].pc = "ordLoop"]
          /\ UNCHANGED orderItems
       \/ /\ pull[c].todoItems # <<>>
          /\ orderItems' = Put(orderItems, PulledItem(Head(pull[c].todoItems)))
          /\ pull' = [pull EXCEPT ![c].todoItems = Tail(pull[c].todoItems)]
    /\ UNCHANGED <<onLine, now, orders, menuItems, inventoryItems,
                   dailyClosings, stockVerifications, lastSyncTime, remoteVars,
                   isSyncing, syncPc, push, invPush, create, su, syncLog, outcome,
                   minted, origin, atPull, changed, extVars, started>>

RECURSIVE LatestClosings(_, _)
\* .order('closing_date', {ascending: false}).limit(n)
LatestClosings(S, n) ==
    IF S = {} \/ n = 0 THEN <<>>
    ELSE LET m == CHOOSE x \in S : \A y \in S :
                     \/ x.closing_date > y.closing_date
                     \/ /\ x.closing_date = y.closing_date
                        /\ IdKey(x.id) <= IdKey(y.id)
         IN <<m>> \o LatestClosings(S \ {m}, n - 1)

Range(q) == {q[i] : i \in 1..Len(q)}

\* supabase.from('daily_closing_logs').select('*')
\*   .order('closing_date', {ascending: false}).limit(30)
PullCloFetch(c) ==
    PullFetch(c, "cloFetch",
              Range(LatestClosings(sb_daily_closing_logs, ClosingLimit)),
              "cloRead", "return")

\* const unsyncedClosings = await db.dailyClosings.where('synced').equals(0).toArray()
PullCloRead(c) ==
    /\ pull[c].pc = "cloRead"
    /\ pull' = [pull EXCEPT
          ![c].unsynced = {x.id : x \in Unsynced(dailyClosings)},
          ![c].todo = LatestClosings(pull[c].data, ClosingLimit),
          ![c].pc = "cloLoop"]
    /\ UNCHANGED <<onLine, now, localVars, remoteVars, isSyncing, syncPc, push,
                   invPush, create, su, syncLog, outcome,
                   minted, origin, atPull, changed, extVars, started>>

\* {...closing, synced: true}
PulledClosing(r) == ClosingRow(r.id, r.closing_date, r.notes, TRUE)

\* for (const closing of closingsData) if (!unsyncedClosingIds.has(closing.id))
\*     await db.dailyClosings.put({...closing, synced: true});
\* then, if (closingIds.length > 0), the fetch of stock_verifications
PullCloLoop(c) ==
    /\ pull[c].pc = "cloLoop"
    /\ \/ /\ pull[c].todo = <<>>
          /\ pull' = [pull EXCEPT ![c].unsynced = {},
                         ![c].pc = IF pull[c].data = {} THEN "return"
                                   ELSE "verFetch"]
          /\ UNCHANGED dailyClosings
       \/ /\ pull[c].todo # <<>>
          /\ Head(pull[c].todo).id \in pull[c].unsynced
          /\ pull' = [pull EXCEPT ![c].todo = Tail(pull[c].todo)]
          /\ UNCHANGED dailyClosings
       \/ /\ pull[c].todo # <<>>
          /\ Head(pull[c].todo).id \notin pull[c].unsynced
          /\ dailyClosings' = Put(dailyClosings, PulledClosing(Head(pull[c].todo)))
          /\ pull' = [pull EXCEPT ![c].todo = Tail(pull[c].todo)]
    /\ UNCHANGED <<onLine, now, orders, orderItems, menuItems, inventoryItems,
                   stockVerifications, lastSyncTime, remoteVars, isSyncing,
                   syncPc, push, invPush, create, su, syncLog, outcome,
                   minted, origin, atPull, changed, extVars, started>>

\* supabase.from('stock_verifications').select('*').in('daily_closing_id', closingIds)
PullVerFetch(c) ==
    /\ pull[c].pc = "verFetch"
    /\ \/ /\ onLine
          /\ pull' = [pull EXCEPT
                ![c].todo = ToArray({v \in sb_stock_verifications :
                     \E x \in pull[c].data : x.id = v.daily_closing_id}),
                ![c].data = {},
                ![c].pc = "verLoop"]
       \/ pull' = [pull EXCEPT ![c].data = {}, ![c].pc = "return",
                                ![c].fetchError = TRUE]
       \/ pull' = [pull EXCEPT ![c] = [PullIdle EXCEPT !.pc = "throw"]]
    /\ UNCHANGED <<onLine, now, localVars, remoteVars, isSyncing, syncPc, push,
                   invPush, create, su, syncLog, outcome,
                   minted, origin, atPull, changed, extVars, started>>

\* {...verification, synced: true}
PulledVerification(v) == VerifRow(v.id, v.daily_closing_id, v.physical_stock, TRUE)

\* for (const verification of verificationsData)
\*     await db.stockVerifications.put({...verification, synced: true})
PullVerLoop(c) ==
    /\ pull[c].pc = "verLoop"
    /\ \/ /\ pull[c].todo = <<>>
          /\ pull' = [pull EXCEPT ![c].pc = "return"]
          /\ UNCHANGED stockVerifications
       \/ /\ pull[c].todo # <<>>
          /\ stockVerifications' =
                Put(stockVerifications, PulledVerification(Head(pull[c].todo)))
          /\ pull' = [pull EXCEPT ![c].todo = Tail(pull[c].todo)]
    /\ UNCHANGED <<onLine, now, orders, orderItems, menuItems, inventoryItems,
                   dailyClosings, lastSyncTime, remoteVars, isSyncing, syncPc,
                   push, invPush, create, su, syncLog, outcome,
                   minted, origin, atPull, changed, extVars, started>>


(* ----------------- repeated calls of pullLatestFromSupabase ------------ *)
\* the tables of the Local Store
Store ==
    [orders |-> orders, orderItems |-> orderItems, menuItems |-> menuItems,
     inventoryItems |-> inventoryItems, dailyClosings |-> dailyClosings,
     stockVerifications |-> stockVerifications]

\* no call of the pull has returned
NoPull ==
    [n |-> 0, clean |-> TRUE,
     store |-> [orders |-> {}, orderItems |-> {}, menuItems |-> {},
                inventoryItems |-> {}, dailyClosings |-> {},
                stockVerifications |-> {}]]

\* await pullLatestFromSupabase() has returned and the caller calls
\* pullLatestFromSupabase() again, as the next sync cycle does when nothing
\* is left to push
PullCall(c) ==
    /\ pull[c].pc = "return"
    /\ pulled.n < MaxCycles - 1
    /\ pulled' = [n |-> pulled.n + 1,
                  clean |-> pulled.clean /\ ~pull[c].fetchError,
                  store |-> Store]
    /\ pull' = [pull EXCEPT ![c] = PullStarted]
    /\ UNCHANGED <<onLine, now, localVars, remoteVars, isSyncing, syncPc, push,
                   invPush, create, su, syncLog, outcome, minted, origin, atPull, changed,
                   started, rt, cart, bill, closing,
                   pendVars, cacheVars, moreVars>>

(* --------------------------- performFullSync -------------------------- *)
\* the rows of the Local Store that are not synced
UnsyncedRows ==
    [orders |-> Unsynced(orders), dailyClosings |-> Unsynced(dailyClosings),
     inventoryItems |-> Unsynced(inventoryItems),
     menuItems |-> Unsynced(menuItems)]
NoRows == [orders |-> {}, dailyClosings |-> {}, inventoryItems |-> {},
           menuItems |-> {}]

\* a performFullSync that does not test the busy flag
BusyIgnored(flag) == FALSE

\* if (isSyncing) return; the guard at the head of performFullSync
Busy(flag) == flag

\* performFullSync(), up to its first await
performFullSync(c) ==
    /\ syncPc[c] = "idle"
    /\ \/ /\ Busy(isSyncing)
          /\ syncLog' = "Sync already in progress"
          /\ outcome' = [outcome EXCEPT ![c] = "dropped"]
          /\ UNCHANGED <<isSyncing, syncPc, push, started>>
       \/ /\ ~Busy(isSyncing)
          /\ ~onLine
          /\ syncLog' = "Offline - skipping sync"
          /\ outcome' = [outcome EXCEPT ![c] = "skipped"]
          /\ UNCHANGED <<isSyncing, syncPc, push, started>>
       \/ /\ ~Busy(isSyncing)
          /\ onLine
          /\ started < MaxCycles
          /\ started' = started + 1
          /\ isSyncing' = TRUE
          /\ syncLog' = "Starting full sync..."
          /\ outcome' = [outcome EXCEPT ![c] = "running"]
          /\ syncPc' = [syncPc EXCEPT ![c] = "push"]
          /\ push' = [push EXCEPT ![c] = PushStarted]
    /\ UNCHANGED <<now, localVars, remoteVars, invPush, pull, create,
                   su, minted, origin, atPull, changed>>

\* a call of performFullSync() by a caller whose previous call has returned
SyncCall(c) ==
    /\ performFullSync(c)
    /\ UNCHANGED <<onLine, extVars>>

\* const orderResults = await syncOrdersToSupabase();
\* then the call of syncInventoryToSupabase
SyncAfterPush(c) ==
    /\ syncPc[c] = "push"
    /\ push[c].pc = "return"
    /\ push' = [push EXCEPT ![c].pc = "idle"]
    /\ invPush' = [invPush EXCEPT ![c] = [InvIdle EXCEPT !.pc = "select"]]
    /\ syncPc' = [syncPc EXCEPT ![c] = "pushInv"]
    /\ UNCHANGED <<onLine, now, localVars, remoteVars, isSyncing, pull, create,
                   su, syncLog, outcome, minted, origin, atPull, changed, extVars, started>>

\* const inventoryResults = await syncInventoryToSupabase();
\* then the call of pullLatestFromSupabase
SyncAfterInv(c) ==
    /\ syncPc[c] = "pushInv"
    /\ invPush[c].pc = "return"
    /\ invPush' = [invPush EXCEPT ![c].pc = "idle"]
    /\ pull' = [pull EXCEPT ![c] = PullStarted]
    /\ syncPc' = [syncPc EXCEPT ![c] = "pull"]
    /\ atPull' = UnsyncedRows
    /\ UNCHANGED <<changed, onLine, now, localVars, remoteVars, isSyncing, push, create,
                   su, syncLog, outcome, minted, origin, started, extVars>>

\* a finally that leaves the busy flag as it is
SyncHeld == isSyncing

\* finally { isSyncing = false }
SyncReleased == FALSE

\* await pullLatestFromSupabase(); await setLastSyncTime(new Date().toISOString())
\* or, when the pull threw: catch, finally { isSyncing = false }
SyncAfterPull(c) ==
    /\ syncPc[c] = "pull"
    /\ \/ /\ pull[c].pc = "return"
          /\ lastSyncTime' = now
          /\ syncPc' = [syncPc EXCEPT ![c] = "stamped"]
          /\ pull' = [pull EXCEPT ![c] = PullIdle]
          /\ UNCHANGED <<isSyncing, syncLog, outcome, push, invPush>>
       \/ /\ pull[c].pc = "throw"
          /\ isSyncing' = SyncReleased
          /\ syncLog' = "Full sync error"
          /\ outcome' = [outcome EXCEPT ![c] = "failed"]
          /\ syncPc' = [syncPc EXCEPT ![c] = "idle"]
          /\ pull' = [pull EXCEPT ![c] = PullIdle]
          /\ push' = [push EXCEPT ![c] = PushIdle]
          /\ invPush' = [invPush EXCEPT ![c] = InvIdle]
          /\ UNCHANGED lastSyncTime
    /\ UNCHANGED <<onLine, now, orders, orderItems, menuItems, inventoryItems,
                   dailyClosings, stockVerifications, remoteVars, create, su,
                   minted, origin, atPull, changed, extVars, started>>

\* console.log('Full sync completed'); finally { isSyncing = false }
SyncFinally(c) ==
    /\ syncPc[c] = "stamped"
    /\ isSyncing' = SyncReleased
    /\ syncLog' = "Full sync completed"
    /\ outcome' = [outcome EXCEPT ![c] = "completed"]
    /\ syncPc' = [syncPc EXCEPT ![c] = "idle"]
    /\ push' = [push EXCEPT ![c] = PushIdle]
    /\ invPush' = [invPush EXCEPT ![c] = InvIdle]
    /\ UNCHANGED <<onLine, now, localVars, remoteVars, pull, create, su,
                   minted, origin, atPull, changed, extVars, started>>

(* -------------------------- createOrderOffline ------------------------ *)
\* count is items.length, todo the items still to add
CreateIdle == [pc |-> "idle", order |-> Null, count |-> 0, todo |-> 0]

\* createOrderOffline(order, items), up to its first await: mints
\* `local_${Date.now()}_${random}` and calls generateOrderNumber
CreateCall(k, cust, total, n) ==
    /\ create[k].pc = "idle"
    /\ push[k].pc = "idle"
    /\ minted < MaxLocal
    /\ minted' = minted + 1
    /\ create' = [create EXCEPT ![k] =
          [pc |-> "number",
           order |-> OrderRow(Id("local_", minted + 1), 0, cust, total,
                              "pending", now, now, FALSE, Null),
           count |-> n,
           todo |-> n]]
    /\ UNCHANGED <<onLine, now, localVars, remoteVars, isSyncing, syncPc, push,
                   invPush, pull, su, syncLog, outcome, started, origin, atPull, changed, extVars>>

\* generateOrderNumber: (lastOrder?.order_number || 0) + 1
generateOrderNumber(T) == Max({o.order_number : o \in T}) + 1

\* const orderNumber = await generateOrderNumber()
CreateNumber(k) ==
    /\ create[k].pc = "number"
    /\ create' = [create EXCEPT
          ![k].order.order_number = generateOrderNumber(orders),
          ![k].pc = "addOrder"]
    /\ UNCHANGED <<onLine, now, localVars, remoteVars, isSyncing, syncPc, push,
                   invPush, pull, su, syncLog, outcome, minted, origin, atPull, changed, extVars, started>>

\* await db.orders.add(newOrder)
CreateAddOrder(k) ==
    /\ create[k].pc = "addOrder"
    /\ orders' = Put(orders, create[k].order)
    /\ create' = [create EXCEPT ![k].pc = "addItems"]
    /\ UNCHANGED <<onLine, now, orderItems, menuItems, inventoryItems,
                   dailyClosings, stockVerifications, lastSyncTime, remoteVars,
                   isSyncing, syncPc, push, invPush, pull, su, syncLog, outcome, minted, origin, atPull, changed, extVars, started>>

\* for (const item of items) await db.orderItems.add({...item,
\*     id: `item_${...}`, order_id: orderId, synced: false})
CreateAddItem(k) ==
    /\ create[k].pc = "addItems"
    /\ create[k].todo > 0
    /\ orderItems' = Put(orderItems,
          ItemRow(Id("item_", 10 * create[k].order.id.n + create[k].todo),
                  create[k].order.id, "dish", create[k].order.total_amount,
                  FALSE))
    /\ create' = [create EXCEPT ![k].todo = create[k].todo - 1]
    /\ UNCHANGED <<onLine, now, orders, menuItems, inventoryItems,
                   dailyClosings, stockVerifications, lastSyncTime, remoteVars,
                   isSyncing, syncPc, push, invPush, pull, su, syncLog, outcome, minted, origin, atPull, changed, extVars, started>>

\* a createOrderOffline that awaits the push it starts
CreateReturnAwaiting(k) ==
    /\ \/ /\ create[k].pc = "addItems"
          /\ create[k].todo = 0
          /\ create' = [create EXCEPT
                ![k] = IF onLine THEN [create[k] EXCEPT !.pc = "await"]
                       ELSE CreateIdle]
          /\ push' = [push EXCEPT ![k] = IF onLine THEN PushStarted ELSE PushIdle]
       \/ /\ create[k].pc = "await"
          /\ push[k].pc = "return"
          /\ create' = [create EXCEPT ![k] = CreateIdle]
          /\ push' = [push EXCEPT ![k] = PushIdle]
    /\ UNCHANGED <<onLine, now, localVars, remoteVars, isSyncing, syncPc,
                   invPush, pull, su, syncLog, outcome, minted, origin, atPull, changed, extVars, started>>

\* a createOrderOffline that starts the background push whatever
\* navigator.onLine says
CreateReturnPushing(k) ==
    /\ create[k].pc = "addItems"
    /\ create[k].todo = 0
    /\ create' = [create EXCEPT ![k] = CreateIdle]
    /\ push' = [push EXCEPT ![k] = PushStarted]
    /\ UNCHANGED <<onLine, now, localVars, remoteVars, isSyncing, syncPc,
                   invPush, pull, su, syncLog, outcome, minted, origin, atPull, changed, extVars, started>>

\* if (navigator.onLine) syncOrdersToSupabase().then(...); return newOrder
CreateReturn(k) ==
    /\ create[k].pc = "addItems"
    /\ create[k].todo = 0
    /\ create' = [create EXCEPT ![k] = CreateIdle]
    /\ push' = [push EXCEPT ![k] = IF onLine THEN PushStarted ELSE PushIdle]
    /\ UNCHANGED <<onLine, now, localVars, remoteVars, isSyncing, syncPc,
                   invPush, pull, su, syncLog, outcome, minted, origin, atPull, changed, extVars, started>>

\* .then(result => ...): the background push has ended
PushReturn(k) ==
    /\ push[k].pc = "return"
    /\ push' = [push EXCEPT ![k] = PushIdle]
    /\ UNCHANGED <<onLine, now, localVars, remoteVars, isSyncing, syncPc,
                   invPush, pull, create, su, syncLog, outcome, minted, origin, atPull, changed, extVars, started>>

(* ------------------------ useUpdateOrderStatus ------------------------ *)
\* answer is what the backend has answered to the update of the status
SuIdle == [pc |-> "idle", orderId |-> Null, status |-> Null, answer |-> ""]

\* no status has been changed while a push held the row
NoChange == [id |-> Id("none", 0), status |-> ""]

\* a push of orders holds a row it has read of the order and has not yet
\* deleted the order's row of the Local Store
InFlight(id) ==
    \E p \in Pushers :
       \E n \in DOMAIN push[p].queue :
          /\ push[p].queue[n].id = id
          /\ n = 1 => push[p].pc \in {"items", "insertOrder", "insertItems",
                                       "delete"}

\* the status buttons OrdersPage and KitchenPage show for an order
Offered(status) ==
    CASE status = "pending" -> {"preparing", "cancelled"}
      [] status = "preparing" -> {"ready"}
      [] status = "ready" -> {"completed"}
      [] OTHER -> {}

\* await db.orders.update(orderId, {status, synced: false, updated_at: now})
UpdateStatusLocal(id, status) ==
    /\ su.pc = "idle"
    /\ orders' = {IF r.id = id
                  THEN [r EXCEPT !.status = status, !.synced = FALSE,
                                 !.updated_at = now]
                  ELSE r : r \in orders}
    /\ su' = [pc |-> "remote", orderId |-> id, status |-> status,
              answer |-> ""]
    /\ changed' = IF InFlight(id) THEN [id |-> id, status |-> status]
                  ELSE changed
    /\ UNCHANGED <<onLine, now, orderItems, menuItems, inventoryItems,
                   dailyClosings, stockVerifications, lastSyncTime, remoteVars,
                   isSyncing, syncPc, push, invPush, pull, create, syncLog, outcome,
                   minted, origin, atPull, extVars, started>>

\* const isOfflineId = orderId.startsWith('offline_')
isOfflineId(orderId) == StartsWith(orderId, "offline_")

\* if (navigator.onLine && !isOfflineId) { try { await supabase.from('orders')
\*   .update({status, updated_at}).eq('id', orderId) ... } catch {} }
UpdateStatusRemote ==
    /\ su.pc = "remote"
    /\ \/ /\ ~(onLine /\ ~isOfflineId(su.orderId))
          /\ su' = SuIdle
          /\ UNCHANGED sb_orders
       \/ /\ onLine /\ ~isOfflineId(su.orderId)
          /\ sb_orders' = {IF r.id = su.orderId
                           THEN [r EXCEPT !.status = su.status,
                                          !.updated_at = now]
                           ELSE r : r \in sb_orders}
          /\ su' = [su EXCEPT !.pc = "mark", !.answer = "ok"]
       \/ /\ onLine /\ ~isOfflineId(su.orderId)
          /\ su' = [su EXCEPT !.pc = "mark", !.answer = "error"]
          /\ UNCHANGED sb_orders
       \/ /\ onLine /\ ~isOfflineId(su.orderId)
          /\ su' = SuIdle
          /\ UNCHANGED sb_orders
    /\ UNCHANGED <<onLine, now, localVars, sb_order_items, sb_menu_items,
                   sb_inventory_items, sb_daily_closing_logs,
                   sb_stock_verifications, isSyncing, syncPc, push, invPush,
                   pull, create, syncLog, outcome, minted, origin, atPull, changed, extVars, started>>

\* await db.orders.update(orderId, {synced: true})
UpdateStatusMark ==
    /\ su.pc = "mark"
    /\ orders' = {IF r.id = su.orderId THEN [r EXCEPT !.synced = TRUE]
                  ELSE r : r \in orders}
    /\ su' = SuIdle
    /\ UNCHANGED <<onLine, now, orderItems, menuItems, inventoryItems,
                   dailyClosings, stockVerifications, lastSyncTime, remoteVars,
                   isSyncing, syncPc, push, invPush, pull, create, syncLog, outcome,
                   minted, origin, atPull, changed, extVars, started>>

(* --------------------------- realtime hooks --------------------------- *)
\* useRealtimeOrders.handleOrderChange, eventType UPDATE, payload.new = r:
\* await db.orders.update(order.id, {status, updated_at, synced: true})
RealtimeOrderUpdate(r) ==
    /\ onLine
    /\ orders' = {IF o.id = r.id
                  THEN [o EXCEPT !.status = r.status,
                                 !.updated_at = r.updated_at, !.synced = TRUE]
                  ELSE o : o \in orders}
    /\ UNCHANGED <<onLine, now, orderItems, menuItems, inventoryItems,
                   dailyClosings, stockVerifications, lastSyncTime, remoteVars,
                   procVars, histVars, extVars>>

\* useRealtimeInventory.handleInventoryChange, eventType UPDATE, payload.new
\* = r with updated_at = t:
\* await db.inventoryItems.update(item.id, {current_stock, updated_at,
\*                                          synced: true})
RealtimeInventoryUpdate(r, t) ==
    /\ onLine
    /\ inventoryItems' = {IF i.id = r.id
                          THEN [i EXCEPT !.current_stock = r.current_stock,
                                         !.updated_at = t, !.synced = TRUE]
                          ELSE i : i \in inventoryItems}
    /\ UNCHANGED <<onLine, now, orders, orderItems, menuItems, dailyClosings,
                   stockVerifications, lastSyncTime, remoteVars, procVars,
                   histVars, extVars>>

\* the deliveries of a notification, each a run of the handler
Handlers == {"h1", "h2"}

\* a handler that is not running
RtIdle == [pc |-> "idle", row |-> Null, existing |-> FALSE]

\* Table.put in the place of Table.add
AddAsPut(T, row) == Put(T, row)

\* Table.add(row): inserts the row; rejects with a ConstraintError, the
\* table unchanged, when the key is present (the handlers catch and log it)
Add(T, row) == IF Has(T, row.id) THEN T ELSE T \cup {row}

\* the row that handleOrderChange adds for payload.new = order
InsertedOrder(order) ==
    OrderRow(order.id, order.order_number, order.customer_name,
             order.total_amount, order.status, order.created_at,
             order.updated_at, TRUE, Null)

\* the row that handleOrderItemChange adds for payload.new = item; the
\* backend's order_items has no menu_item_name
InsertedItem(item) == ItemRow(item.id, item.order_id, Null, item.total_price, TRUE)

\* useRealtimeOrders.handleOrderChange, eventType INSERT, payload.new = r:
\* const existingOrder = await db.orders.get(order.id)
RealtimeOrderInsert(h, r) ==
    /\ onLine
    /\ rt[h].pc \in {"idle", "done"}
    /\ rt' = [rt EXCEPT ![h] = [pc |-> "orderAdd", row |-> r,
                                existing |-> Has(orders, r.id)]]
    /\ UNCHANGED <<onLine, now, localVars, remoteVars, procVars, histVars,
                   pulled, cart, bill, closing, pendVars,
                   cacheVars, moreVars>>

\* if (!existingOrder) await db.orders.add({...order, synced: true})
RealtimeOrderAdd(h) ==
    /\ rt[h].pc = "orderAdd"
    /\ orders' = IF rt[h].existing THEN orders
                 ELSE Add(orders, InsertedOrder(rt[h].row))
    /\ rt' = [rt EXCEPT ![h].pc = "done"]
    /\ UNCHANGED <<onLine, now, orderItems, menuItems, inventoryItems,
                   dailyClosings, stockVerifications, lastSyncTime, remoteVars,
                   procVars, histVars, pulled, cart, bill, closing,
                   pendVars, cacheVars, moreVars>>

\* useRealtimeOrderItems.handleOrderItemChange, eventType INSERT,
\* payload.new = i: const existingItem = await db.orderItems.get(item.id)
RealtimeItemInsert(h, i) ==
    /\ onLine
    /\ rt[h].pc \in {"idle", "done"}
    /\ rt' = [rt EXCEPT ![h] = [pc |-> "itemAdd", row |-> i,
                                existing |-> Has(orderItems, i.id)]]
    /\ UNCHANGED <<onLine, now, localVars, remoteVars, procVars, histVars,
                   pulled, cart, bill, closing, pendVars,
                   cacheVars, moreVars>>

\* if (!existingItem) await db.orderItems.add({...item, synced: true})
RealtimeItemAdd(h) ==
    /\ rt[h].pc = "itemAdd"
    /\ orderItems' = IF rt[h].existing THEN orderItems
                     ELSE Add(orderItems, InsertedItem(rt[h].row))
    /\ rt' = [rt EXCEPT ![h].pc = "done"]
    /\ UNCHANGED <<onLine, now, orders, menuItems, inventoryItems,
                   dailyClosings, stockVerifications, lastSyncTime, remoteVars,
                   procVars, histVars, pulled, cart, bill, closing,
                   pendVars, cacheVars, moreVars>>

\* useRealtimeOrders.handleOrderChange, eventType DELETE, payload.old = r:
\* await db.orders.delete(payload.old?.id)
RealtimeOrderDelete(r) ==
    /\ onLine
    /\ orders' = Delete(orders, r.id)
    /\ UNCHANGED <<onLine, now, orderItems, menuItems, inventoryItems,
                   dailyClosings, stockVerifications, lastSyncTime, remoteVars,
                   procVars, histVars, extVars>>

\* another terminal deletes an order on the backend; order_items.order_id
\* REFERENCES orders(id) ON DELETE CASCADE
OtherDeleteOrder(id) ==
    /\ sb_orders' = {r \in sb_orders : r.id # id}
    /\ sb_order_items' = {i \in sb_order_items : i.order_id # id}
    /\ UNCHANGED <<onLine, now, localVars, sb_menu_items, sb_inventory_items,
                   sb_daily_closing_logs, sb_stock_verifications, procVars,
                   histVars, extVars>>

\* another terminal changes the status of an order on the backend
OtherUpdateOrder(id, status) ==
    /\ sb_orders' = {IF r.id = id
                     THEN [r EXCEPT !.status = status, !.updated_at = now]
                     ELSE r : r \in sb_orders}
    /\ UNCHANGED <<onLine, now, localVars, sb_order_items, sb_menu_items,
                   sb_inventory_items, sb_daily_closing_logs,
                   sb_stock_verifications, procVars, histVars, extVars>>

\* another terminal pushes a stock level to the backend
OtherUpdateStock(id, stock) ==
    /\ sb_inventory_items' = {IF r.id = id THEN [r EXCEPT !.current_stock = stock]
                              ELSE r : r \in sb_inventory_items}
    /\ UNCHANGED <<onLine, now, localVars, sb_orders, sb_order_items,
                   sb_menu_items, sb_daily_closing_logs,
                   sb_stock_verifications, procVars, histVars, extVars>>

(* ------------------------------ the cart ------------------------------ *)
\* the largest quantity of a cart item
MaxQty == 2

\* the menu: price and gst_percentage of every dish
MenuCard ==
    {[id |-> "dosa", price |-> 40, gst_percentage |-> 5],
     [id |-> "tea", price |-> 10, gst_percentage |-> 0]}

\* the rows of the menu that the kitchen page has shown: the menu, and the
\* dosa after the menu management page has raised its gst_percentage
MenuShown ==
    MenuCard \cup {[id |-> "dosa", price |-> 40, gst_percentage |-> 10]}

BillTypes == {"tax_invoice", "estimate"}

\* the amounts the cashier types into the discount field
Discounts == {-5, 5, 100}

\* the initial state of the store, and the state after clearCart()
EmptyCart == [items |-> <<>>, billType |-> "tax_invoice", discount |-> 0]

\* no order has been made from the cart
NoBill ==
    [stage |-> "none", total_amount |-> 0, discount_amount |-> 0,
     items |-> <<>>, sb_total_amount |-> 0, sb_discount_amount |-> 0,
     sb_items |-> <<>>]

\* calculateItemPrice(menuItem, quantity, billType); the prices of the menu
\* make every amount a whole number
calculateItemPrice(menuItem, quantity, billType) ==
    LET unitPrice == menuItem.price
        gstPercentage == IF billType = "tax_invoice"
                         THEN menuItem.gst_percentage ELSE 0
        subtotal == unitPrice * quantity
        gstAmount == (subtotal * gstPercentage) \div 100
    IN [unitPrice |-> unitPrice, gstPercentage |-> gstPercentage,
        gstAmount |-> gstAmount, totalPrice |-> subtotal + gstAmount]

\* a CartItem: {menuItem, quantity, ...priceInfo}
CartItem(menuItem, quantity, billType) ==
    LET priceInfo == calculateItemPrice(menuItem, quantity, billType)
    IN [menuItem |-> menuItem, quantity |-> quantity,
        unitPrice |-> priceInfo.unitPrice,
        gstPercentage |-> priceInfo.gstPercentage,
        gstAmount |-> priceInfo.gstAmount,
        totalPrice |-> priceInfo.totalPrice]

\* {...item, quantity, ...priceInfo}: the item keeps its menuItem and takes
\* the quantity and the prices calculated from menuItem
Repriced(item, menuItem, quantity, billType) ==
    LET priceInfo == calculateItemPrice(menuItem, quantity, billType)
    IN [item EXCEPT !.quantity = quantity,
                    !.unitPrice = priceInfo.unitPrice,
                    !.gstPercentage = priceInfo.gstPercentage,
                    !.gstAmount = priceInfo.gstAmount,
                    !.totalPrice = priceInfo.totalPrice]

RECURSIVE SumOf(_)
\* reduce((sum, x) => sum + x, 0)
SumOf(q) == IF q = <<>> THEN 0 ELSE Head(q) + SumOf(Tail(q))

RECURSIVE Without(_, _)
\* items.filter(item => item.id !== itemId)
Without(items, itemId) ==
    IF items = <<>> THEN <<>>
    ELSE IF Head(items).menuItem.id = itemId THEN Without(Tail(items), itemId)
         ELSE <<Head(items)>> \o Without(Tail(items), itemId)

\* addItem(menuItem)
addItem(menuItem) ==
    /\ cart' =
          IF \E n \in DOMAIN cart.items : cart.items[n].menuItem.id = menuItem.id
          THEN [cart EXCEPT !.items =
                  [n \in DOMAIN cart.items |->
                     IF cart.items[n].menuItem.id = menuItem.id
                     THEN Repriced(cart.items[n], menuItem,
                                   cart.items[n].quantity + 1, cart.billType)
                     ELSE cart.items[n]]]
          ELSE [cart EXCEPT !.items =
                  Append(cart.items, CartItem(menuItem, 1, cart.billType))]
    /\ \A n \in DOMAIN cart'.items : cart'.items[n].quantity <= MaxQty
    /\ UNCHANGED <<coreVars, pulled, rt, bill, closing, pendVars, cacheVars,
                   moreVars>>

\* removeItem(itemId)
removeItem(itemId) ==
    /\ cart' = [cart EXCEPT !.items = Without(cart.items, itemId)]
    /\ UNCHANGED <<coreVars, pulled, rt, bill, closing, pendVars, cacheVars,
                   moreVars>>

\* updateQuantity(itemId, quantity)
updateQuantity(itemId, quantity) ==
    /\ cart' =
          IF quantity <= 0
          THEN [cart EXCEPT !.items = Without(cart.items, itemId)]
          ELSE [cart EXCEPT !.items =
                  [n \in DOMAIN cart.items |->
                     IF cart.items[n].menuItem.id = itemId
                     THEN CartItem(cart.items[n].menuItem, quantity,
                                   cart.billType)
                     ELSE cart.items[n]]]
    /\ UNCHANGED <<coreVars, pulled, rt, bill, closing, pendVars, cacheVars,
                   moreVars>>

\* setBillType(billType)
setBillType(billType) ==
    /\ cart' = [cart EXCEPT
                   !.billType = billType,
                   !.items = [n \in DOMAIN cart.items |->
                                CartItem(cart.items[n].menuItem,
                                         cart.items[n].quantity, billType)]]
    /\ UNCHANGED <<coreVars, pulled, rt, bill, closing, pendVars, cacheVars,
                   moreVars>>

\* setDiscount(discount): set({discount: Math.max(0, discount)})
setDiscount(discount) ==
    /\ cart' = [cart EXCEPT !.discount = IF discount > 0 THEN discount ELSE 0]
    /\ UNCHANGED <<coreVars, pulled, rt, bill, closing, pendVars, cacheVars,
                   moreVars>>

\* getTotal(): Math.max(0, subtotal - discount)
getTotal ==
    LET subtotal == SumOf([n \in DOMAIN cart.items |-> cart.items[n].totalPrice])
    IN IF subtotal - cart.discount > 0 THEN subtotal - cart.discount ELSE 0

\* KitchenPage.handleCheckout: the order and the items handed to
\* createOrderOffline, which stores them as given; then clearCart()
handleCheckout ==
    /\ cart.items # <<>>
    /\ bill.stage = "none"
    /\ bill' = [NoBill EXCEPT
                   !.stage = "local",
                   !.total_amount = getTotal,
                   !.discount_amount = cart.discount,
                   !.items = [n \in DOMAIN cart.items |->
                                cart.items[n].totalPrice]]
    /\ cart' = [EmptyCart EXCEPT !.billType = cart.billType]
    /\ UNCHANGED <<coreVars, pulled, rt, closing, pendVars, cacheVars,
                   moreVars>>

\* syncOrdersToSupabase for that order, every call succeeding: the order is
\* inserted with the local amounts, its items are inserted and the trigger
\* update_order_totals sets the backend's total_amount to SUM(total_price);
\* the local row moves to the remote id and its local items are deleted
BillPush ==
    /\ onLine
    /\ bill.stage = "local"
    /\ bill' = [bill EXCEPT
                   !.stage = "pushed",
                   !.items = <<>>,
                   !.sb_items = bill.items,
                   !.sb_discount_amount = bill.discount_amount,
                   !.sb_total_amount = SumOf(bill.items)]
    /\ UNCHANGED <<coreVars, pulled, rt, cart, closing, pendVars, cacheVars,
                   moreVars>>

\* pullLatestFromSupabase for that order: the backend's row and its items
\* are put into the Local Store
BillPull ==
    /\ onLine
    /\ bill.stage \in {"pushed", "pulled"}
    /\ bill' = [bill EXCEPT
                   !.stage = "pulled",
                   !.total_amount = bill.sb_total_amount,
                   !.discount_amount = bill.sb_discount_amount,
                   !.items = bill.sb_items]
    /\ UNCHANGED <<coreVars, pulled, rt, cart, closing, pendVars, cacheVars,
                   moreVars>>

(* ------------------- submission of a daily closing -------------------- *)
\* the closing dates the page can be set to
Dates == {0, 1}

\* no submission in flight; n counts the ids minted for closings
ClosingIdle == [pc |-> "idle", id |-> Null, date |-> 0, server |-> Null, n |-> 0]

\* submitClosingMutation, not editing, for closingDate = d; the page offers
\* the button when the Local Store holds no closing of that date:
\* await db.dailyClosings.add({id: closingId, closing_date, synced: false})
SubmitAdd(d) ==
    /\ closing.pc = "idle"
    /\ \A r \in dailyClosings : r.closing_date # d
    /\ LET closingId == Id("closing_", closing.n + 1) IN
       /\ dailyClosings' = Add(dailyClosings, ClosingRow(closingId, d, "new", FALSE))
       /\ closing' = [closing EXCEPT !.pc = "insert", !.id = closingId,
                                     !.date = d, !.n = closing.n + 1]
    /\ UNCHANGED <<onLine, now, orders, orderItems, menuItems, inventoryItems,
                   stockVerifications, lastSyncTime, remoteVars, procVars,
                   histVars, pulled, rt, cart, bill,
                   pendVars, cacheVars, moreVars>>

\* if (syncStatus.isOnline) supabase.from('daily_closing_logs').insert(...);
\* closing_date is UNIQUE on the backend, and any insert may fail; with an
\* error, or offline, the mutation ends here
SubmitInsert ==
    /\ closing.pc = "insert"
    /\ \/ /\ onLine
          /\ \A r \in sb_daily_closing_logs : r.closing_date # closing.date
          /\ LET row == SbClosingRow(
                    Id("uuid", 1 + Max({r.id.n : r \in sb_daily_closing_logs})),
                    closing.date, "new") IN
             /\ sb_daily_closing_logs' = sb_daily_closing_logs \cup {row}
             /\ closing' = [closing EXCEPT !.pc = "remap", !.server = row.id]
       \/ /\ closing' = [closing EXCEPT !.pc = "idle"]
          /\ UNCHANGED sb_daily_closing_logs
    /\ UNCHANGED <<onLine, now, localVars, sb_orders, sb_order_items,
                   sb_menu_items, sb_inventory_items, sb_stock_verifications,
                   procVars, histVars, pulled, rt, cart, bill,
                   pendVars, cacheVars, moreVars>>

\* await db.dailyClosings.delete(closingId)
\* await db.dailyClosings.add({id: closing.id, closing_date, synced: true})
SubmitRemap ==
    /\ closing.pc = "remap"
    /\ dailyClosings' =
          Add(Delete(dailyClosings, closing.id),
              ClosingRow(closing.server, closing.date, "new", TRUE))
    /\ closing' = [closing EXCEPT !.pc = "idle"]
    /\ UNCHANGED <<onLine, now, orders, orderItems, menuItems, inventoryItems,
                   stockVerifications, lastSyncTime, remoteVars, procVars,
                   histVars, pulled, rt, cart, bill,
                   pendVars, cacheVars, moreVars>>

\* another terminal submits the closing of date d to the backend
OtherSubmitClosing(d) ==
    /\ \A r \in sb_daily_closing_logs : r.closing_date # d
    /\ sb_daily_closing_logs' = sb_daily_closing_logs \cup
          {SbClosingRow(Id("uuid", 1 + Max({r.id.n : r \in sb_daily_closing_logs})),
                        d, "theirs")}
    /\ UNCHANGED <<onLine, now, localVars, sb_orders, sb_order_items,
                   sb_menu_items, sb_inventory_items, sb_stock_verifications,
                   procVars, histVars, extVars>>

(* -------------------- the pending operation queue --------------------- *)
\* the number of operations that are ever queued
MaxOps == 2

\* the orderData a caller hands to useCreateOrder: one order with one item
OrderDatas ==
    {[order |-> [customer_name |-> "alice", total_amount |-> 100],
      items |-> <<[total_price |-> 100]>>]}

UcIdle == [pc |-> "idle", data |-> Null, order |-> Null, n |-> 0]
SpIdle == [pc |-> "idle", todo |-> <<>>, order |-> Null, success |-> 0,
           failed |-> 0]

\* addPendingOperation(operation): queue.push({...operation, id})
addPendingOperation(queue, operation, id) ==
    Append(queue, [id |-> id, type |-> operation.type,
                   table |-> operation.table, data |-> operation.data])

RECURSIVE removePendingOperation(_, _)
\* removePendingOperation(id): queue.filter(op => op.id !== id)
removePendingOperation(queue, id) ==
    IF queue = <<>> THEN <<>>
    ELSE IF Head(queue).id = id THEN removePendingOperation(Tail(queue), id)
         ELSE <<Head(queue)>> \o removePendingOperation(Tail(queue), id)

\* supabase.from('orders').insert(data.order).select().single(): the row
\* the backend creates, with its defaults
InsertedSbOrder(order) ==
    SbOrderRow(Id("uuid", Cardinality(sb_orders) + 1),
               Max({r.order_number : r \in sb_orders}) + 1,
               order.customer_name, order.total_amount, "pending", now, now)

\* useCreateOrder.mutationFn(orderData): offline, the operation is queued
\* and the mutation throws; online, the order is inserted, or the insert
\* fails and the mutation throws
UseCreateOrder(orderData) ==
    /\ uc.pc = "idle"
    /\ \/ /\ ~onLine
          /\ uc.n < MaxOps
          /\ pending' = addPendingOperation(pending,
                            [type |-> "insert", table |-> "orders",
                             data |-> orderData], uc.n + 1)
          /\ uc' = [uc EXCEPT !.n = uc.n + 1]
          /\ UNCHANGED sb_orders
       \/ /\ onLine
          /\ Cardinality(sb_orders) < MaxRemote
          /\ sb_orders' = sb_orders \cup {InsertedSbOrder(orderData.order)}
          /\ uc' = [uc EXCEPT !.pc = "items", !.data = orderData,
                              !.order = InsertedSbOrder(orderData.order).id]
          /\ UNCHANGED pending
       \/ /\ onLine
          /\ UNCHANGED <<sb_orders, uc, pending, cacheVars, moreVars>>
    /\ UNCHANGED <<onLine, now, localVars, sb_order_items, sb_menu_items,
                   sb_inventory_items, sb_daily_closing_logs,
                   sb_stock_verifications, procVars, histVars, pulled, rt,
                   cart, bill, closing, sp, applied,
                   cacheVars, moreVars>>

\* supabase.from('order_items').insert(itemsWithOrderId);
\* if (itemsError) throw itemsError; return order
UseCreateOrderItems ==
    /\ uc.pc = "items"
    /\ \/ /\ onLine
          /\ Cardinality(sb_order_items) + Len(uc.data.items) <= MaxRemoteItems
          /\ sb_order_items' = sb_order_items \cup
                NewSbItems(uc.data.items, uc.order, Cardinality(sb_order_items))
       \/ UNCHANGED sb_order_items
    /\ uc' = [uc EXCEPT !.pc = "idle", !.data = Null, !.order = Null]
    /\ UNCHANGED <<onLine, now, localVars, sb_orders, sb_menu_items,
                   sb_inventory_items, sb_daily_closing_logs,
                   sb_stock_verifications, procVars, histVars, pulled, rt,
                   cart, bill, closing, pending, sp, applied,
                   cacheVars, moreVars>>

\* useSyncPending.mutationFn: const pending = getPendingOperations()
SyncPendingStart ==
    /\ sp.pc = "idle"
    /\ sp' = [SpIdle EXCEPT !.pc = "loop", !.todo = pending]
    /\ UNCHANGED <<coreVars, pulled, rt, cart, bill, closing, pending, uc,
                   applied, cacheVars, moreVars>>

\* for (const op of pending): the insert of op.data.order; an error is
\* thrown into the catch of the iteration, which counts the failure
SyncPendingOrder ==
    /\ sp.pc = "loop"
    /\ sp.todo # <<>>
    /\ LET op == Head(sp.todo) IN
       IF op.table = "orders" /\ op.type = "insert"
       THEN \/ /\ onLine
               /\ Cardinality(sb_orders) < MaxRemote
               /\ sb_orders' = sb_orders \cup {InsertedSbOrder(op.data.order)}
               /\ applied' = applied \cup {<<op.id, "order">>}
               /\ sp' = [sp EXCEPT !.pc = "items",
                                   !.order = InsertedSbOrder(op.data.order).id]
            \/ /\ sp' = [sp EXCEPT !.todo = Tail(sp.todo),
                                   !.failed = sp.failed + 1]
               /\ UNCHANGED <<sb_orders, applied, cacheVars, moreVars>>
       ELSE /\ sp' = [sp EXCEPT !.pc = "remove"]
            /\ UNCHANGED <<sb_orders, applied, cacheVars, moreVars>>
    /\ UNCHANGED <<onLine, now, localVars, sb_order_items, sb_menu_items,
                   sb_inventory_items, sb_daily_closing_logs,
                   sb_stock_verifications, procVars, histVars, pulled, rt,
                   cart, bill, closing, pending, uc,
                   cacheVars, moreVars>>

\* await supabase.from('order_items').insert(itemsWithOrderId): the result
\* is not read
SyncPendingItems ==
    /\ sp.pc = "items"
    /\ LET op == Head(sp.todo) IN
       \/ /\ onLine
          /\ Cardinality(sb_order_items) + Len(op.data.items) <= MaxRemoteItems
          /\ sb_order_items' = sb_order_items \cup
                NewSbItems(op.data.items, sp.order, Cardinality(sb_order_items))
          /\ applied' = applied \cup {<<op.id, "items">>}
       \/ UNCHANGED <<sb_order_items, applied, cacheVars, moreVars>>
    /\ sp' = [sp EXCEPT !.pc = "remove"]
    /\ UNCHANGED <<onLine, now, localVars, sb_orders, sb_menu_items,
                   sb_inventory_items, sb_daily_closing_logs,
                   sb_stock_verifications, procVars, histVars, pulled, rt,
                   cart, bill, closing, pending, uc,
                   cacheVars, moreVars>>

\* removePendingOperation(op.id); results.success++
SyncPendingRemove ==
    /\ sp.pc = "remove"
    /\ pending' = removePendingOperation(pending, Head(sp.todo).id)
    /\ sp' = [sp EXCEPT !.pc = "loop", !.todo = Tail(sp.todo),
                        !.order = Null, !.success = sp.success + 1]
    /\ UNCHANGED <<coreVars, pulled, rt, cart, bill, closing, uc, applied,
                   cacheVars, moreVars>>

\* return results
SyncPendingReturn ==
    /\ sp.pc = "loop"
    /\ sp.todo = <<>>
    /\ sp' = [sp EXCEPT !.pc = "idle"]
    /\ UNCHANGED <<coreVars, pulled, rt, cart, bill, closing, pending, uc,
                   applied, cacheVars, moreVars>>

(* ------------------------------ the cache ----------------------------- *)
\* the largest value of the clock while the cache is in use
MaxCacheTime == 4

\* the cache keys in use: 'menuItems' is a name of the duration table;
\* 'orders-all' and 'orders-pending' are keys of the orders read path
\* (`orders-${status || 'all'}`)
CacheKeys == {"menuItems", "orders-all", "orders-pending"}

\* the data that is cached: results of queries, which JSON.stringify and
\* JSON.parse carry over unchanged
CacheValues == {"X", "Y"}

\* localStorage.getItem(expiryKey) === null
NoExpiry == -1

\* the cache durations, in units of five minutes
CACHE_DURATIONS ==
    [menuItems |-> 12, inventoryItems |-> 3, orders |-> 1, profiles |-> 6,
     closingLogs |-> 12, default |-> 2]

\* const duration = CACHE_DURATIONS[key] || CACHE_DURATIONS.default: the
\* table is indexed with the whole key
duration(key) ==
    IF key \in DOMAIN CACHE_DURATIONS
    THEN CACHE_DURATIONS[key]
    ELSE CACHE_DURATIONS["default"]

\* setCache(key, data)
setCache(key, data) ==
    /\ cacheStore' = [data |-> [cacheStore.data EXCEPT ![key] = data],
                      expiry |-> [cacheStore.expiry EXCEPT
                                    ![key] = now + duration(key)]]
    /\ ret' = [fn |-> "setCache", key |-> key, at |-> now, value |-> Null]
    /\ UNCHANGED <<coreVars, pulled, rt, cart, bill, closing, pendVars,
                   moreVars>>

\* Date.now() > expiry
Expired(expiry) == now > expiry

\* getCache(key): no expiry stored: null; expired: both entries removed,
\* null; else the stored data, or null when none is stored
getCache(key) ==
    /\ IF cacheStore.expiry[key] = NoExpiry
       THEN /\ ret' = [fn |-> "getCache", key |-> key, at |-> now,
                       value |-> Null]
            /\ UNCHANGED cacheStore
       ELSE IF Expired(cacheStore.expiry[key])
       THEN /\ cacheStore' =
                  [data |-> [cacheStore.data EXCEPT ![key] = Null],
                   expiry |-> [cacheStore.expiry EXCEPT ![key] = NoExpiry]]
            /\ ret' = [fn |-> "getCache", key |-> key, at |-> now,
                       value |-> Null]
       ELSE /\ ret' = [fn |-> "getCache", key |-> key, at |-> now,
                       value |-> cacheStore.data[key]]
            /\ UNCHANGED cacheStore
    /\ UNCHANGED <<coreVars, pulled, rt, cart, bill, closing, pendVars,
                   moreVars>>

\* isCacheValid(key): an expiry is stored and Date.now() < expiry
isCacheValid(key) ==
    /\ cacheStore.expiry[key] # NoExpiry
    /\ now < cacheStore.expiry[key]

\* invalidateCache(key)
invalidateCache(key) ==
    /\ cacheStore' = [data |-> [cacheStore.data EXCEPT ![key] = Null],
                      expiry |-> [cacheStore.expiry EXCEPT ![key] = NoExpiry]]
    /\ ret' = [fn |-> "invalidateCache", key |-> key, at |-> now,
               value |-> Null]
    /\ UNCHANGED <<coreVars, pulled, rt, cart, bill, closing, pendVars,
                   moreVars>>

\* time passes
CacheTick ==
    /\ now < MaxCacheTime
    /\ now' = now + 1
    /\ UNCHANGED <<onLine, localVars, remoteVars, procVars, histVars, extVars>>

(* ------------------ StockManagementPage.handleAdjustStock ------------- *)
\* the largest number of stock adjustments
MaxAdjust == 2

\* adjustType and adjustAmount
AdjustTypes == {"add", "remove"}
AdjustAmounts == {1, 10}

AdjIdle == [pc |-> "idle", id |-> Null, newStock |-> 0, n |-> 0]

\* newStock: current + amount, or Math.max(0, current - amount)
NewStock(current, adjustType, adjustAmount) ==
    IF adjustType = "add" THEN current + adjustAmount
    ELSE IF current - adjustAmount > 0 THEN current - adjustAmount ELSE 0

\* handleAdjustStock(), up to the remote update:
\* await db.inventoryItems.update(id, {current_stock: newStock,
\* synced: false, updated_at}); the transaction record it adds is in a table
\* that is not modelled
AdjustLocal(id, adjustType, adjustAmount) ==
    /\ adj.pc = "idle"
    /\ adj.n < MaxAdjust
    /\ Has(inventoryItems, id)
    /\ LET newStock == NewStock(Get(inventoryItems, id).current_stock,
                                adjustType, adjustAmount) IN
       /\ inventoryItems' =
             {IF r.id = id
              THEN [r EXCEPT !.current_stock = newStock, !.synced = FALSE,
                             !.updated_at = now]
              ELSE r : r \in inventoryItems}
       /\ adj' = [pc |-> "remote", id |-> id, newStock |-> newStock,
                  n |-> adj.n + 1]
    /\ UNCHANGED <<onLine, now, orders, orderItems, menuItems, dailyClosings,
                   stockVerifications, lastSyncTime, remoteVars, procVars,
                   histVars, pulled, rt, cart, bill, closing, pendVars,
                   cacheVars, auto, fired, hs>>

\* if (syncStatus.isOnline) await supabase.from('inventory_items')
\* .update({current_stock: newStock}).eq('id', id): the answer is not read
AdjustRemote ==
    /\ adj.pc = "remote"
    /\ \/ /\ onLine
          /\ sb_inventory_items' =
                {IF r.id = adj.id
                 THEN [r EXCEPT !.current_stock = adj.newStock]
                 ELSE r : r \in sb_inventory_items}
       \/ UNCHANGED sb_inventory_items
    /\ adj' = [adj EXCEPT !.pc = "idle"]
    /\ UNCHANGED <<onLine, now, localVars, sb_orders, sb_order_items,
                   sb_menu_items, sb_daily_closing_logs,
                   sb_stock_verifications, procVars, histVars, pulled, rt,
                   cart, bill, closing, pendVars, cacheVars, auto, fired, hs>>

(* ---------------------- OfflineStatusBar.handleSync ------------------- *)
HsIdle == [pc |-> "idle", toast |-> ""]

\* handleSync(), up to its await: toast.error when the status bar shows
\* offline, else setIsSyncing(true) and the call of performFullSync()
HandleSyncCall ==
    /\ hs.pc = "idle"
    /\ IF ~onLine
       THEN /\ hs' = [hs EXCEPT !.toast = "Cannot sync while offline"]
            /\ UNCHANGED <<now, localVars, remoteVars, procVars, histVars>>
       ELSE /\ performFullSync("manual")
            /\ hs' = [pc |-> "await", toast |-> ""]
    /\ UNCHANGED <<onLine, pulled, rt, cart, bill, closing, pendVars,
                   cacheVars, auto, fired, adj>>

\* await performFullSync() is over (performFullSync catches what its cycle
\* throws, so its promise is never rejected):
\* toast.success('Synced successfully!'); finally setIsSyncing(false)
HandleSyncReturn ==
    /\ hs.pc = "await"
    /\ syncPc["manual"] = "idle"
    /\ hs' = [pc |-> "idle", toast |-> "Synced successfully!"]
    /\ UNCHANGED <<coreVars, pulled, rt, cart, bill, closing, pendVars,
                   cacheVars, auto, fired, adj>>

(* ----------------------------- setupAutoSync ------------------------- *)
\* the largest value of the clock, in seconds, while the timers run
MaxAutoTime == 5
\* the largest number of 'online' events
MaxEvents == 2

\* setTimeout(..., 2000) of handleOnline, in seconds
Debounce == 2
\* setTimeout(performFullSync, 3000), in seconds
InitialDelay == 3
\* setInterval(..., 5 * 60 * 1000), shortened to five seconds
SyncInterval == 5

\* let syncTimeout = null
NoTimeout == 0

\* before setupAutoSync is called
\* armed is the number of debounce timers that handleOnline has armed
AutoIdle == [set |-> FALSE, listening |-> FALSE, torn |-> FALSE,
             syncTimeout |-> NoTimeout, timers |-> {}, armed |-> 0]
NoFire == [events |-> 0, lastOnlineAt |-> 0, offAfter |-> FALSE,
           kind |-> "", h |-> 0, at |-> 0, torn |-> FALSE, cycle |-> FALSE]

\* a timer that is armed: its handle h, what armed it and when it is due
Timer(kind, h, due) == [kind |-> kind, h |-> h, due |-> due]

\* a clearTimeout that clears nothing
clearNothing(timers, handle) == timers

\* clearTimeout(handle): the timers left
clearTimeout(timers, handle) ==
    {t \in timers : ~(t.kind = "debounce" /\ t.h = handle)}

\* clearInterval(intervalId): the timers left
clearInterval(timers) == {t \in timers : t.kind # "interval"}

\* setupAutoSync(): registers the listeners, arms the initial timer when
\* online, and the periodic interval
AutoSetup ==
    /\ ~auto.set
    /\ auto' = [auto EXCEPT
          !.set = TRUE,
          !.listening = TRUE,
          !.timers = (IF onLine
                      THEN {Timer("initial", 0, now + InitialDelay)}
                      ELSE {})
                     \cup {Timer("interval", 0, now + SyncInterval)}]
    /\ UNCHANGED <<coreVars, pulled, rt, cart, bill, closing, pendVars,
                   cacheVars, fired, hs, adj>>

\* the browser's 'online' event, and handleOnline when it is registered:
\* if (syncTimeout) clearTimeout(syncTimeout); syncTimeout = setTimeout(...)
HandleOnline ==
    /\ ~onLine
    /\ fired.events < MaxEvents
    /\ onLine' = TRUE
    /\ fired' = [fired EXCEPT !.events = @ + 1, !.lastOnlineAt = now,
                              !.offAfter = FALSE]
    /\ IF auto.listening
       THEN auto' = [auto EXCEPT
               !.syncTimeout = fired.events + 1,
               !.armed = @ + 1,
               !.timers = clearTimeout(auto.timers, auto.syncTimeout)
                          \cup {Timer("debounce", fired.events + 1,
                                      now + Debounce)}]
       ELSE UNCHANGED auto
    /\ UNCHANGED <<now, localVars, remoteVars, procVars, histVars, pulled,
                   rt, cart, bill, closing, pendVars, cacheVars, hs,
                   adj>>

\* the browser's 'offline' event, and handleOffline when it is registered:
\* if (syncTimeout) clearTimeout(syncTimeout)
HandleOffline ==
    /\ onLine
    /\ onLine' = FALSE
    /\ fired' = [fired EXCEPT !.offAfter = TRUE]
    /\ IF auto.listening
       THEN auto' = [auto EXCEPT
               !.timers = clearTimeout(auto.timers, auto.syncTimeout)]
       ELSE UNCHANGED auto
    /\ UNCHANGED <<now, localVars, remoteVars, procVars, histVars, pulled,
                   rt, cart, bill, closing, pendVars, cacheVars, hs,
                   adj>>

\* a timer comes due and its callback runs: performFullSync() for the
\* debounce timer and for the initial timer,
\* if (navigator.onLine) performFullSync() for the interval, which stays
\* armed; a call while the previous call of a timer has not returned finds
\* the busy flag set
TimerFire(t) ==
    /\ t \in auto.timers
    /\ t.due = now
    /\ auto' = [auto EXCEPT
          !.timers = (auto.timers \ {t})
                     \cup (IF t.kind = "interval"
                           THEN {Timer("interval", 0, now + SyncInterval)}
                           ELSE {})]
    /\ IF t.kind = "interval" /\ ~onLine
       THEN UNCHANGED <<localVars, remoteVars, procVars, histVars>>
       ELSE IF syncPc["timer"] = "idle"
       THEN performFullSync("timer")
       ELSE /\ syncLog' = "Sync already in progress"
            /\ UNCHANGED <<outcome, localVars, remoteVars, isSyncing, syncPc, push,
                           invPush, pull, create, su, minted, started,
                           histVars>>
    /\ fired' = [fired EXCEPT !.kind = t.kind, !.h = t.h, !.at = now,
                              !.torn = auto.torn,
                              !.cycle = (started' # started)]
    /\ UNCHANGED <<onLine, now, pulled, rt, cart, bill, closing, pendVars,
                   cacheVars, hs, adj>>

\* the function returned by setupAutoSync: removes the listeners,
\* if (syncTimeout) clearTimeout(syncTimeout); clearInterval(intervalId)
AutoTeardown ==
    /\ auto.set
    /\ ~auto.torn
    /\ auto' = [auto EXCEPT
          !.listening = FALSE,
          !.torn = TRUE,
          !.timers = clearInterval(clearTimeout(auto.timers,
                                                auto.syncTimeout))]
    /\ UNCHANGED <<coreVars, pulled, rt, cart, bill, closing, pendVars,
                   cacheVars, fired, hs, adj>>

\* a second passes; a timer that is due runs first
AutoTick ==
    /\ now < MaxAutoTime
    /\ \A t \in auto.timers : t.due > now
    /\ now' = now + 1
    /\ UNCHANGED <<onLine, localVars, remoteVars, procVars, histVars, extVars>>

(* ----------------------------- environment ---------------------------- *)
\* the browser's 'online' event
GoOnline ==
    /\ ~onLine
    /\ onLine' = TRUE
    /\ UNCHANGED <<now, localVars, remoteVars, procVars, histVars, extVars>>

\* the browser's 'offline' event
GoOffline ==
    /\ onLine
    /\ onLine' = FALSE
    /\ UNCHANGED <<now, localVars, remoteVars, procVars, histVars, extVars>>

\* time passes
Tick ==
    /\ now < MaxTime
    /\ now' = now + 1
    /\ UNCHANGED <<onLine, localVars, remoteVars, procVars, histVars, extVars>>


(* --------------------------- specifications --------------------------- *)
Customers == {"alice"}
Amounts == {100}

\* nothing has happened next to the sync engine
ExtInit ==
    /\ pulled = NoPull
    /\ rt = [h \in Handlers |-> RtIdle]
    /\ cart = EmptyCart
    /\ bill = NoBill
    /\ closing = ClosingIdle
    /\ pending = <<>>
    /\ uc = UcIdle
    /\ sp = SpIdle
    /\ applied = {}
    /\ cacheStore = [data |-> [k \in CacheKeys |-> Null],
                     expiry |-> [k \in CacheKeys |-> NoExpiry]]
    /\ ret = [fn |-> "", key |-> "", at |-> 0, value |-> Null]
    /\ auto = AutoIdle
    /\ fired = NoFire
    /\ hs = HsIdle
    /\ adj = AdjIdle

\* no operation in flight
ProcInit ==
    /\ isSyncing = FALSE
    /\ syncPc = [c \in Callers |-> "idle"]
    /\ push = [p \in Pushers |-> PushIdle]
    /\ invPush = [c \in Callers |-> InvIdle]
    /\ pull = [c \in Callers |-> PullIdle]
    /\ create = [k \in Creators |-> CreateIdle]
    /\ su = SuIdle
    /\ syncLog = ""
    /\ outcome = [c \in Callers |-> ""]
    /\ minted = 0
    /\ started = 0
    /\ origin = {}
    /\ atPull = NoRows
    /\ changed = NoChange
    /\ ExtInit

\* the backend after some use: one order with one item, one dish, one stock
\* item, one daily closing with one verification
RemoteInit ==
    /\ sb_orders = {SbOrderRow(Id("uuid", 1), 1, "bob", 50, "pending", 0, 0)}
    /\ sb_order_items = {SbItemRow(Id("uuid", 1), Id("uuid", 1), 50)}
    /\ sb_menu_items = {SbMenuRow(Id("uuid", 1), "dosa", TRUE)}
    /\ sb_inventory_items = {SbInvRow(Id("uuid", 1), "rice", 5, TRUE)}
    /\ sb_daily_closing_logs = {SbClosingRow(Id("uuid", 1), 0, "ok")}
    /\ sb_stock_verifications = {SbVerifRow(Id("uuid", 1), Id("uuid", 1), 5)}

\* a terminal that has pulled the backend and has since, while offline,
\* adjusted the stock of the stock item and edited the daily closing
Init ==
    /\ onLine = FALSE
    /\ now = 0
    /\ RemoteInit
    /\ orders = {PulledOrder(r) : r \in sb_orders}
    /\ orderItems = {PulledItem(i) : i \in sb_order_items}
    /\ menuItems = PulledMenu(sb_menu_items, 0)
    /\ inventoryItems = {InvRow(Id("uuid", 1), "rice", 4, TRUE, FALSE, 0)}
    /\ dailyClosings = {ClosingRow(Id("uuid", 1), 0, "edited", FALSE)}
    /\ stockVerifications = {PulledVerification(v) : v \in sb_stock_verifications}
    /\ lastSyncTime = 0
    /\ ProcInit

PushStep(p) ==
    \/ PushSelect(p)
    \/ PushReadItems(p)
    \/ PushInsertOrder(p)
    \/ PushInsertItems(p)
    \/ PushDelete(p)
    \/ PushPut(p)
    \/ PushDeleteItems(p)
    \/ PushCatch(p)

InvStep(c) ==
    \/ InvSelect(c)
    \/ InvUpdate(c)
    \/ InvMark(c)

PullStep(c) ==
    \/ PullMenuFetch(c)
    \/ PullMenuClear(c)
    \/ PullMenuPut(c)
    \/ PullInvFetch(c)
    \/ PullInvRead(c)
    \/ PullInvClear(c)
    \/ PullInvPut(c)
    \/ PullOrdFetch(c)
    \/ PullOrdRead(c)
    \/ PullOrdLoop(c)
    \/ PullOrdItems(c)
    \/ PullCloFetch(c)
    \/ PullCloRead(c)
    \/ PullCloLoop(c)
    \/ PullVerFetch(c)
    \/ PullVerLoop(c)

SyncStep(c) ==
    \/ SyncCall(c)
    \/ SyncAfterPush(c)
    \/ SyncAfterInv(c)
    \/ SyncAfterPull(c)
    \/ SyncFinally(c)

CreateStep(k) ==
    \/ \E cust \in Customers, total \in Amounts, n \in 1..MaxItems :
          CreateCall(k, cust, total, n)
    \/ CreateNumber(k)
    \/ CreateAddOrder(k)
    \/ CreateAddItem(k)
    \/ CreateReturn(k)
    \/ PushReturn(k)

UpdateStatusStep ==
    \/ \E o \in orders : \E s \in Offered(o.status) : UpdateStatusLocal(o.id, s)
    \/ UpdateStatusRemote
    \/ UpdateStatusMark

Next ==
    \/ \E c \in Callers : SyncStep(c)
    \/ \E p \in Pushers : PushStep(p)
    \/ \E c \in Callers : InvStep(c)
    \/ \E c \in Callers : PullStep(c)
    \/ \E k \in Creators : CreateStep(k)
    \/ UpdateStatusStep
    \/ GoOnline
    \/ GoOffline

Spec == Init /\ [][Next]_vars


(* ----------------- the sync engine without concurrent writers --------- *)
\* an order created offline by createOrderOffline, with its item
OfflineOrder == OrderRow(Id("local_", 1), 2, "alice", 100, "pending", 0, 0, FALSE, Null)
OfflineItem == ItemRow(Id("item_", 11), Id("local_", 1), "dish", 100, FALSE)

\* a terminal that has pulled the backend and has since worked offline: it
\* either created an order, a dish and a stock item, or changed the status of
\* the pulled order, edited the dish, adjusted the stock item and edited the
\* daily closing
InitSync ==
    /\ onLine \in BOOLEAN
    /\ now = 0
    /\ RemoteInit
    /\ \E work \in {"creations", "edits"} :
          /\ orders =
                IF work = "creations"
                THEN {OfflineOrder,
                      OrderRow(Id("uuid", 1), 1, "bob", 50, "pending", 0, 0,
                               TRUE, Null)}
                ELSE {OrderRow(Id("uuid", 1), 1, "bob", 50, "preparing", 0, 0,
                               FALSE, Null)}
          /\ orderItems =
                (IF work = "creations" THEN {OfflineItem} ELSE {})
                \cup {PulledItem(i) : i \in sb_order_items}
          /\ menuItems =
                IF work = "creations"
                THEN {MenuRow(Id("uuid", 1), "dosa", TRUE, TRUE, 0),
                      MenuRow(Id("menu_", 1), "idli", TRUE, FALSE, 0)}
                ELSE {MenuRow(Id("uuid", 1), "masala dosa", TRUE, FALSE, 0)}
          /\ inventoryItems =
                IF work = "creations"
                THEN {InvRow(Id("uuid", 1), "rice", 5, TRUE, TRUE, 0),
                      InvRow(Id("inv_", 1), "dal", 3, TRUE, FALSE, 0)}
                ELSE {InvRow(Id("uuid", 1), "basmati", 4, TRUE, FALSE, 0)}
          /\ dailyClosings =
                {IF work = "creations" THEN ClosingRow(Id("uuid", 1), 0, "ok", TRUE)
                 ELSE ClosingRow(Id("uuid", 1), 0, "edited", FALSE)}
    /\ stockVerifications = {PulledVerification(v) : v \in sb_stock_verifications}
    /\ lastSyncTime = 0
    /\ isSyncing = FALSE
    /\ syncPc = [c \in Callers |-> "idle"]
    /\ push = [p \in Pushers |-> PushIdle]
    /\ invPush = [c \in Callers |-> InvIdle]
    /\ pull = [c \in Callers |-> PullIdle]
    /\ create = [k \in Creators |-> CreateIdle]
    /\ su = SuIdle
    /\ syncLog = ""
    /\ outcome = [c \in Callers |-> ""]
    /\ minted = 1
    /\ started = 0
    /\ origin = {}
    /\ atPull = NoRows
    /\ changed = NoChange
    /\ ExtInit

NextSync ==
    \/ \E c \in Callers : SyncStep(c)
    \/ \E c \in Callers : PushStep(c)
    \/ \E c \in Callers : InvStep(c)
    \/ \E c \in Callers : PullStep(c)
    \/ GoOnline
    \/ GoOffline

SpecSync == InitSync /\ [][NextSync]_vars


(* ------------- a pull racing with a change of order status ------------ *)
\* a terminal whose Local Store mirrors the backend
Mirror ==
    /\ orders = {PulledOrder(r) : r \in sb_orders}
    /\ orderItems = {PulledItem(i) : i \in sb_order_items}
    /\ menuItems = PulledMenu(sb_menu_items, 0)
    /\ inventoryItems = PulledInventory(sb_inventory_items, {}, 0)
    /\ dailyClosings = {PulledClosing(r) : r \in sb_daily_closing_logs}
    /\ stockVerifications = {PulledVerification(v) : v \in sb_stock_verifications}
    /\ lastSyncTime = 0

\* the timer's sync cycle has pushed nothing, since nothing was unsynced, and
\* has just called the pull; the cashier is looking at the order list
InitPullRace ==
    /\ onLine = TRUE
    /\ now = 0
    /\ RemoteInit
    /\ Mirror
    /\ isSyncing = TRUE
    /\ syncPc = [c \in Callers |-> IF c = "timer" THEN "pull" ELSE "idle"]
    /\ push = [p \in Pushers |-> PushIdle]
    /\ invPush = [c \in Callers |-> InvIdle]
    /\ pull = [c \in Callers |-> IF c = "timer" THEN PullStarted ELSE PullIdle]
    /\ create = [k \in Creators |-> CreateIdle]
    /\ su = SuIdle
    /\ syncLog = ""
    /\ outcome = [c \in Callers |-> ""]
    /\ minted = 0
    /\ started = 1
    /\ origin = {}
    /\ atPull = NoRows
    /\ changed = NoChange
    /\ ExtInit

NextPullRace ==
    \/ \E c \in Callers : PullStep(c)
    \/ UpdateStatusStep
    \/ GoOnline
    \/ GoOffline
    \/ Tick

SpecPullRace == InitPullRace /\ [][NextPullRace]_vars


(* ------- orders: creation, status changes and the pushes of orders ----- *)
\* a terminal that mirrors the backend, with nothing in flight
InitOrders ==
    /\ onLine \in BOOLEAN
    /\ now = 0
    /\ RemoteInit
    /\ Mirror
    /\ ProcInit

\* the status buttons the cashier presses
Pressed == {"preparing"}

\* the cashier creates an order and starts preparing orders while the timer
\* starts a sync cycle; the cycle is followed up to the return of its push of
\* orders
NextOrders ==
    \/ SyncCall("timer")
    \/ \E p \in {"timer"} \cup Creators : PushStep(p)
    \/ \E k \in Creators : CreateStep(k)
    \/ \E o \in orders : \E s \in Offered(o.status) \cap Pressed :
          UpdateStatusLocal(o.id, s)
    \/ UpdateStatusRemote
    \/ UpdateStatusMark
    \/ GoOnline
    \/ GoOffline

SpecOrders == InitOrders /\ [][NextOrders]_vars


(* ------------------ a push with two unsynced orders ------------------- *)
\* a terminal that has pulled the backend and has since, while offline,
\* created an order and started preparing the pulled one
InitPush ==
    /\ onLine \in BOOLEAN
    /\ now = 0
    /\ RemoteInit
    /\ orders = {OfflineOrder,
                 OrderRow(Id("uuid", 1), 1, "bob", 50, "preparing", 0, 0,
                          FALSE, Null)}
    /\ orderItems = {OfflineItem} \cup {PulledItem(i) : i \in sb_order_items}
    /\ menuItems = PulledMenu(sb_menu_items, 0)
    /\ inventoryItems = PulledInventory(sb_inventory_items, {}, 0)
    /\ dailyClosings = {PulledClosing(r) : r \in sb_daily_closing_logs}
    /\ stockVerifications = {PulledVerification(v) : v \in sb_stock_verifications}
    /\ lastSyncTime = 0
    /\ isSyncing = FALSE
    /\ syncPc = [c \in Callers |-> "idle"]
    /\ push = [p \in Pushers |-> PushIdle]
    /\ invPush = [c \in Callers |-> InvIdle]
    /\ pull = [c \in Callers |-> PullIdle]
    /\ create = [k \in Creators |-> CreateIdle]
    /\ su = SuIdle
    /\ syncLog = ""
    /\ outcome = [c \in Callers |-> ""]
    /\ minted = 1
    /\ started = 0
    /\ origin = {}
    /\ atPull = NoRows
    /\ changed = NoChange
    /\ ExtInit

\* sync cycles, followed up to the return of their push of orders
NextPush ==
    \/ \E c \in Callers : SyncCall(c)
    \/ \E c \in Callers : PushStep(c)
    \/ GoOnline
    \/ GoOffline

SpecPush == InitPush /\ [][NextPush]_vars


(* ------- realtime notifications racing with local changes ------------- *)
\* the stock levels other terminals push
Stocks == {3, 5}

\* a terminal that mirrors the backend, or one that has also adjusted the
\* stock of the stock item while offline
InitRealtime ==
    /\ onLine \in BOOLEAN
    /\ now = 0
    /\ RemoteInit
    /\ orders = {PulledOrder(r) : r \in sb_orders}
    /\ orderItems = {PulledItem(i) : i \in sb_order_items}
    /\ menuItems = PulledMenu(sb_menu_items, 0)
    /\ inventoryItems \in
          {PulledInventory(sb_inventory_items, {}, 0),
           {InvRow(Id("uuid", 1), "rice", 4, TRUE, FALSE, 0)}}
    /\ dailyClosings = {PulledClosing(r) : r \in sb_daily_closing_logs}
    /\ stockVerifications = {PulledVerification(v) : v \in sb_stock_verifications}
    /\ lastSyncTime = 0
    /\ ProcInit

\* the cashier changes the status of orders while other terminals change
\* orders and stock on the backend and their notifications arrive
NextRealtime ==
    \/ UpdateStatusStep
    \/ \E r \in sb_orders : RealtimeOrderUpdate(r)
    \/ \E r \in sb_inventory_items, t \in 0..now : RealtimeInventoryUpdate(r, t)
    \/ \E r \in sb_orders : \E s \in Offered(r.status) : OtherUpdateOrder(r.id, s)
    \/ \E r \in sb_inventory_items, k \in Stocks : OtherUpdateStock(r.id, k)
    \/ GoOnline
    \/ GoOffline
    \/ Tick

SpecRealtime == InitRealtime /\ [][NextRealtime]_vars


(* ------------- createOrderOffline and its background push ------------- *)
\* the lengths of the items argument
ItemCounts == {1, 2}

\* the cashier checks out a cart of one or two items
NextCreate ==
    \/ \E k \in Creators : \E cust \in Customers, total \in Amounts,
                              n \in ItemCounts : CreateCall(k, cust, total, n)
    \/ \E k \in Creators : CreateNumber(k)
    \/ \E k \in Creators : CreateAddOrder(k)
    \/ \E k \in Creators : CreateAddItem(k)
    \/ \E k \in Creators : CreateReturn(k)
    \/ \E k \in Creators : PushReturn(k)
    \/ \E k \in Creators : PushStep(k)
    \/ GoOnline
    \/ GoOffline
    \/ Tick

SpecCreate == InitOrders /\ [][NextCreate]_vars

\* the steps of createOrderOffline, all of them operations on the Local Store
CreateLocal(k) ==
    \/ CreateNumber(k)
    \/ CreateAddOrder(k)
    \/ CreateAddItem(k)
    \/ CreateReturn(k)

\* the operations on the Local Store complete; nothing is assumed of the
\* backend nor of the background push
SpecCreateLive ==
    SpecCreate /\ \A k \in Creators : WF_vars(CreateLocal(k))


(* ------------------- the status update operations --------------------- *)
\* useUpdateOrderStatus and KitchenPage.updateOrderStatus called with any
\* order of the Local Store and any status of their parameter's type
NextStatus ==
    \/ \E o \in orders, s \in Statuses : UpdateStatusLocal(o.id, s)
    \/ UpdateStatusRemote
    \/ UpdateStatusMark
    \/ GoOnline
    \/ GoOffline
    \/ Tick

SpecStatus == InitOrders /\ [][NextStatus]_vars


(* --------------- the pull called twice on the same backend ------------ *)
\* a terminal that calls the pull on its first run (empty Local Store), with
\* a Local Store that mirrors the backend, or after offline work (a new
\* order, an adjusted stock item, an edited daily closing)
InitPullTwice ==
    /\ onLine = TRUE
    /\ now = 0
    /\ RemoteInit
    /\ \/ Mirror
       \/ /\ orders = {} /\ orderItems = {} /\ menuItems = {}
          /\ inventoryItems = {} /\ dailyClosings = {}
          /\ stockVerifications = {}
          /\ lastSyncTime = Null
       \/ /\ orders = {OfflineOrder} \cup {PulledOrder(r) : r \in sb_orders}
          /\ orderItems = {OfflineItem} \cup {PulledItem(i) : i \in sb_order_items}
          /\ menuItems = PulledMenu(sb_menu_items, 0)
          /\ inventoryItems = {InvRow(Id("uuid", 1), "rice", 4, TRUE, FALSE, 0)}
          /\ dailyClosings = {ClosingRow(Id("uuid", 1), 0, "edited", FALSE)}
          /\ stockVerifications =
                {PulledVerification(v) : v \in sb_stock_verifications}
          /\ lastSyncTime = 0
    /\ isSyncing = FALSE
    /\ syncPc = [c \in Callers |-> "idle"]
    /\ push = [p \in Pushers |-> PushIdle]
    /\ invPush = [c \in Callers |-> InvIdle]
    /\ pull = [c \in Callers |-> IF c = "timer" THEN PullStarted ELSE PullIdle]
    /\ create = [k \in Creators |-> CreateIdle]
    /\ su = SuIdle
    /\ syncLog = ""
    /\ outcome = [c \in Callers |-> ""]
    /\ minted = 1
    /\ started = 0
    /\ origin = {}
    /\ atPull = NoRows
    /\ changed = NoChange
    /\ ExtInit

NextPullTwice ==
    \/ \E c \in Callers : PullStep(c)
    \/ \E c \in Callers : PullCall(c)
    \/ GoOnline
    \/ GoOffline
    \/ Tick

SpecPullTwice == InitPullTwice /\ [][NextPullTwice]_vars


(* ------------------ realtime INSERT notifications -------------------- *)
\* a terminal, online, whose Local Store is empty or mirrors the backend
InitInsert ==
    /\ onLine = TRUE
    /\ now = 0
    /\ RemoteInit
    /\ \/ Mirror
       \/ /\ orders = {} /\ orderItems = {}
          /\ menuItems = PulledMenu(sb_menu_items, 0)
          /\ inventoryItems = PulledInventory(sb_inventory_items, {}, 0)
          /\ dailyClosings = {PulledClosing(r) : r \in sb_daily_closing_logs}
          /\ stockVerifications =
                {PulledVerification(v) : v \in sb_stock_verifications}
          /\ lastSyncTime = 0
    /\ ProcInit

\* every notification is delivered to two runs of its handler, which
\* interleave with each other and with the cashier changing order statuses
NextInsert ==
    \/ \E h \in Handlers, r \in sb_orders : RealtimeOrderInsert(h, r)
    \/ \E h \in Handlers : RealtimeOrderAdd(h)
    \/ \E h \in Handlers, i \in sb_order_items : RealtimeItemInsert(h, i)
    \/ \E h \in Handlers : RealtimeItemAdd(h)
    \/ UpdateStatusStep
    \/ GoOnline
    \/ GoOffline

SpecInsert == InitInsert /\ [][NextInsert]_vars


(* ------------- successive sync cycles as the clock advances ----------- *)
\* the timer's sync cycles alone, with time passing
NextDelta ==
    \/ SyncStep("timer")
    \/ PushStep("timer")
    \/ InvStep("timer")
    \/ PullStep("timer")
    \/ GoOnline
    \/ GoOffline
    \/ Tick

SpecDelta == InitSync /\ [][NextDelta]_vars


(* ------------------ realtime DELETE notifications -------------------- *)
\* the local orders that the backend no longer holds
DeletedRemotely == {o \in orders : StartsWith(o.id, "uuid") /\ ~Has(sb_orders, o.id)}

\* orders are deleted on the backend by other terminals and the DELETE
\* notifications are delivered, while the cashier changes order statuses
NextDelete ==
    \/ \E r \in sb_orders : OtherDeleteOrder(r.id)
    \/ \E o \in DeletedRemotely : RealtimeOrderDelete(o)
    \/ \E h \in Handlers, i \in sb_order_items : RealtimeItemInsert(h, i)
    \/ \E h \in Handlers : RealtimeItemAdd(h)
    \/ UpdateStatusStep
    \/ GoOnline
    \/ GoOffline
    \/ Tick

SpecDelete == InitInsert /\ [][NextDelete]_vars


(* --------------------- the cart and its checkout ---------------------- *)
\* the cashier fills the cart and checks out; the order is pushed and pulled
NextCart ==
    \/ \E m \in MenuCard : addItem(m)
    \/ \E m \in MenuCard : removeItem(m.id)
    \/ \E m \in MenuCard, q \in 0..MaxQty : updateQuantity(m.id, q)
    \/ \E b \in BillTypes : setBillType(b)
    \/ \E d \in Discounts : setDiscount(d)
    \/ handleCheckout
    \/ BillPush
    \/ BillPull
    \/ GoOnline
    \/ GoOffline

SpecCart == InitOrders /\ [][NextCart]_vars


(* -------------------- the cart as the menu is edited ------------------ *)
\* the cashier fills the cart from the menu that the kitchen page shows
NextGst ==
    \/ \E m \in MenuShown : addItem(m)
    \/ \E m \in MenuCard : removeItem(m.id)
    \/ \E m \in MenuCard, q \in 0..MaxQty : updateQuantity(m.id, q)
    \/ \E b \in BillTypes : setBillType(b)

SpecGst == InitOrders /\ [][NextGst]_vars


(* ------------- daily closings submitted here and elsewhere ------------ *)
\* the manager submits closings, online or offline, other terminals submit
\* theirs to the backend, and the pull runs
NextClosing ==
    \/ \E d \in Dates : SubmitAdd(d)
    \/ SubmitInsert
    \/ SubmitRemap
    \/ \E d \in Dates : OtherSubmitClosing(d)
    \/ \E c \in Callers : PullStep(c)
    \/ \E c \in Callers : PullCall(c)
    \/ GoOnline
    \/ GoOffline

SpecClosing == InitPullTwice /\ [][NextClosing]_vars


(* ------------- orders queued offline and their replay ----------------- *)
NextPending ==
    \/ \E d \in OrderDatas : UseCreateOrder(d)
    \/ UseCreateOrderItems
    \/ SyncPendingStart
    \/ SyncPendingOrder
    \/ SyncPendingItems
    \/ SyncPendingRemove
    \/ SyncPendingReturn
    \/ GoOnline
    \/ GoOffline
    \/ Tick

SpecPending == InitOrders /\ [][NextPending]_vars


(* ----------------------- the cache as time passes --------------------- *)
NextCache ==
    \/ \E k \in CacheKeys, x \in CacheValues : setCache(k, x)
    \/ \E k \in CacheKeys : getCache(k)
    \/ \E k \in CacheKeys : invalidateCache(k)
    \/ CacheTick

SpecCache == InitOrders /\ [][NextCache]_vars


(* ------------------ setupAutoSync and the sync cycles ------------------ *)
\* a new installation, online or offline: the backend and the Local Store
\* are empty
InitAuto ==
    /\ onLine \in BOOLEAN
    /\ now = 0
    /\ sb_orders = {}
    /\ sb_order_items = {}
    /\ sb_menu_items = {}
    /\ sb_inventory_items = {}
    /\ sb_daily_closing_logs = {}
    /\ sb_stock_verifications = {}
    /\ Mirror
    /\ ProcInit

\* the app sets auto sync up and tears it down as the connection comes and
\* goes; the cycles that the timers start find nothing to push
NextAuto ==
    \/ AutoSetup
    \/ HandleOnline
    \/ HandleOffline
    \/ \E t \in auto.timers : TimerFire(t)
    \/ AutoTeardown
    \/ AutoTick
    \/ PushSelect("timer")
    \/ SyncAfterPush("timer")
    \/ InvSelect("timer")
    \/ SyncAfterInv("timer")
    \/ PullMenuFetch("timer")
    \/ PullMenuClear("timer")
    \/ PullMenuPut("timer")
    \/ PullInvFetch("timer")
    \/ PullInvRead("timer")
    \/ PullInvClear("timer")
    \/ PullInvPut("timer")
    \/ PullOrdFetch("timer")
    \/ PullOrdRead("timer")
    \/ PullOrdLoop("timer")
    \/ PullCloFetch("timer")
    \/ PullCloRead("timer")
    \/ PullCloLoop("timer")
    \/ SyncAfterPull("timer")
    \/ SyncFinally("timer")

SpecAuto == InitAuto /\ [][NextAuto]_vars


(* ------------------- 'sync now' next to the timer ---------------------- *)
\* the cashier presses 'sync now' while the timer calls performFullSync
NextManual ==
    \/ HandleSyncCall
    \/ HandleSyncReturn
    \/ SyncCall("timer")
    \/ \E c \in Callers : SyncAfterPush(c)
    \/ \E c \in Callers : SyncAfterInv(c)
    \/ \E c \in Callers : SyncAfterPull(c)
    \/ \E c \in Callers : SyncFinally(c)
    \/ \E c \in Callers : PushStep(c)
    \/ \E c \in Callers : InvStep(c)
    \/ \E c \in Callers : PullStep(c)
    \/ GoOnline
    \/ GoOffline

SpecManual == InitSync /\ [][NextManual]_vars


(* -------------- the inventory push racing with adjustments ------------ *)
\* a terminal that has adjusted the stock of the stock item; the timer's
\* sync cycle has pushed the orders and has just called the inventory push
InitAdjust ==
    /\ onLine = TRUE
    /\ now = 0
    /\ RemoteInit
    /\ orders = {PulledOrder(r) : r \in sb_orders}
    /\ orderItems = {PulledItem(i) : i \in sb_order_items}
    /\ menuItems = PulledMenu(sb_menu_items, 0)
    /\ inventoryItems = {InvRow(Id("uuid", 1), "rice", 4, TRUE, FALSE, 0)}
    /\ dailyClosings = {PulledClosing(r) : r \in sb_daily_closing_logs}
    /\ stockVerifications = {PulledVerification(v) : v \in sb_stock_verifications}
    /\ lastSyncTime = 0
    /\ isSyncing = TRUE
    /\ syncPc = [c \in Callers |-> IF c = "timer" THEN "pushInv" ELSE "idle"]
    /\ push = [p \in Pushers |-> PushIdle]
    /\ invPush = [c \in Callers |->
                    IF c = "timer" THEN [InvIdle EXCEPT !.pc = "select"]
                    ELSE InvIdle]
    /\ pull = [c \in Callers |-> PullIdle]
    /\ create = [k \in Creators |-> CreateIdle]
    /\ su = SuIdle
    /\ syncLog = "Starting full sync..."
    /\ outcome = [c \in Callers |-> IF c = "timer" THEN "running" ELSE ""]
    /\ minted = 0
    /\ started = 1
    /\ origin = {}
    /\ atPull = NoRows
    /\ changed = NoChange
    /\ ExtInit

NextAdjust ==
    \/ InvStep("timer")
    \/ \E r \in inventoryItems, ty \in AdjustTypes, a \in AdjustAmounts :
          AdjustLocal(r.id, ty, a)
    \/ AdjustRemote
    \/ GoOnline
    \/ GoOffline

SpecAdjust == InitAdjust /\ [][NextAdjust]_vars


(* ------------------ two checkouts at the same time --------------------- *)
\* two calls of createOrderOffline that run at the same time
Checkouts == {"pos", "pos2"}

\* the order a checkout has built up to its call of generateOrderNumber
Checkout(n, cust) ==
    [pc |-> "number",
     order |-> OrderRow(Id("local_", n), 0, cust, 100, "pending", 0, 0,
                        FALSE, Null),
     count |-> 1,
     todo |-> 1]

\* a terminal that mirrors the backend; two checkouts have called
\* createOrderOffline, each with a cart of one item, and both await
\* generateOrderNumber
InitCheckouts ==
    /\ onLine \in BOOLEAN
    /\ now = 0
    /\ RemoteInit
    /\ Mirror
    /\ isSyncing = FALSE
    /\ syncPc = [c \in Callers |-> "idle"]
    /\ push = [p \in Callers \cup Checkouts |-> PushIdle]
    /\ invPush = [c \in Callers |-> InvIdle]
    /\ pull = [c \in Callers |-> PullIdle]
    /\ create = [k \in Checkouts |->
                   IF k = "pos" THEN Checkout(1, "alice")
                   ELSE Checkout(2, "carol")]
    /\ su = SuIdle
    /\ syncLog = ""
    /\ outcome = [c \in Callers |-> ""]
    /\ minted = 2
    /\ started = 0
    /\ origin = {}
    /\ atPull = NoRows
    /\ changed = NoChange
    /\ ExtInit

NextCheckouts ==
    \/ \E k \in Checkouts : CreateNumber(k)
    \/ \E k \in Checkouts : CreateAddOrder(k)
    \/ \E k \in Checkouts : CreateAddItem(k)
    \/ \E k \in Checkouts : CreateReturn(k)
    \/ \E k \in Checkouts : PushReturn(k)
    \/ \E k \in Checkouts : PushStep(k)
    \/ GoOnline
    \/ GoOffline

SpecCheckouts == InitCheckouts /\ [][NextCheckouts]_vars


(* ------------- the push of orders racing with status updates ---------- *)
\* a terminal that mirrors the backend and has created one order offline
InitRemap ==
    /\ onLine \in BOOLEAN
    /\ now = 0
    /\ RemoteInit
    /\ orders = {PulledOrder(r) : r \in sb_orders} \cup {OfflineOrder}
    /\ orderItems = {PulledItem(i) : i \in sb_order_items} \cup {OfflineItem}
    /\ menuItems = PulledMenu(sb_menu_items, 0)
    /\ inventoryItems = PulledInventory(sb_inventory_items, {}, 0)
    /\ dailyClosings = {PulledClosing(r) : r \in sb_daily_closing_logs}
    /\ stockVerifications = {PulledVerification(v) : v \in sb_stock_verifications}
    /\ lastSyncTime = 0
    /\ isSyncing = FALSE
    /\ syncPc = [c \in Callers |-> "idle"]
    /\ push = [p \in Pushers |-> PushIdle]
    /\ invPush = [c \in Callers |-> InvIdle]
    /\ pull = [c \in Callers |-> PullIdle]
    /\ create = [k \in Creators |-> CreateIdle]
    /\ su = SuIdle
    /\ syncLog = ""
    /\ outcome = [c \in Callers |-> ""]
    /\ minted = 1
    /\ started = 0
    /\ origin = {}
    /\ atPull = NoRows
    /\ changed = NoChange
    /\ ExtInit

\* the timer's cycle pushes the unsynced orders while the kitchen changes
\* the status of orders
NextRemap ==
    \/ SyncCall("timer")
    \/ PushStep("timer")
    \/ \E o \in orders : \E s \in Offered(o.status) \cap Pressed :
          UpdateStatusLocal(o.id, s)
    \/ UpdateStatusRemote
    \/ UpdateStatusMark
    \/ GoOnline
    \/ GoOffline

SpecRemap == InitRemap /\ [][NextRemap]_vars


(* ------------------------------- claims ------------------------------- *)
\* an id minted on the device for an order the backend has not confirmed
LocalOrigin(id) == StartsWith(id, "local_") \/ StartsWith(id, "offline_")

\* the performFullSync calls that are past the busy guard
Running == {c \in Callers : syncPc[c] # "idle"}

\* C1: at most one performFullSync call is past the busy guard at any time,
\* and a call made while the busy flag is set (it logs 'Sync already in
\* progress') changes neither the Local Store, nor the backend, nor the
\* last-sync timestamp, nor the state of any push or pull
C1_SingleFlight ==
    /\ [](Cardinality(Running) <= 1)
    /\ []((\E c \in Callers : push[c].pc # "idle" \/ invPush[c].pc # "idle"
                                \/ pull[c].pc # "idle") => isSyncing)
    /\ [][(syncLog' = "Sync already in progress" /\ syncLog' # syncLog)
            => UNCHANGED <<localVars, remoteVars, isSyncing, syncPc, push,
                           invPush, pull, started>>]_vars

\* a second call was dropped while the first cycle was pulling
C1_Witness ==
    /\ syncLog = "Sync already in progress"
    /\ started = 1
    /\ \E c \in Callers : pull[c].pc = "ordLoop"

\* C2: while a pull runs with no concurrent local writer, and when it has
\* ended, every Order row and every DailyClosing row that was unsynced when
\* the pull was called is in the Local Store with all its fields unchanged
C2_PullKeepsUnsyncedOrders ==
    \A c \in Callers :
        pull[c].pc # "idle" =>
            /\ \A r \in atPull.orders : r \in orders
            /\ \A r \in atPull.dailyClosings : r \in dailyClosings

\* a pull has gone through a snapshot of closings that holds the id of an
\* unsynced closing with other content, while the backend holds the id of an
\* unsynced order with another status
C2_Witness ==
    \E c \in Callers :
        /\ pull[c].pc = "cloLoop"
        /\ pull[c].todo = <<>>
        /\ \E r \in atPull.dailyClosings : \E d \in pull[c].data :
              d.id = r.id /\ d.notes # r.notes
        /\ \E o \in atPull.orders : \E x \in sb_orders :
              x.id = o.id /\ x.status # o.status

\* C4: when a pull has ended, every InventoryItem row that was unsynced when
\* the pull was called is in the Local Store with all its fields unchanged
C4_PullKeepsUnsyncedInventory ==
    \A c \in Callers :
        pull[c].pc = "return" =>
            \A r \in atPull.inventoryItems : r \in inventoryItems

\* C5: when a pull has ended, every MenuItem row that was unsynced when the
\* pull was called is in the Local Store with all its fields unchanged
C5_PullKeepsUnsyncedMenu ==
    \A c \in Callers :
        pull[c].pc = "return" =>
            \A r \in atPull.menuItems : r \in menuItems

\* a push that has just remapped an order created offline and deleted the
\* items it had read
PushedOffline(p) ==
    /\ push[p].pc = "deleteItems"
    /\ push[p].todo = <<>>
    /\ LocalOrigin(push[p].localOrder.id)

CreatedFrom(id) == {x \in origin : x[2] = id}

\* C7: over any number of sync cycles, at most one remote order is created
\* from one order created offline
C7_OneRemoteOrderPerLocalOrder ==
    \A x \in origin : LocalOrigin(x[2]) => Cardinality(CreatedFrom(x[2])) <= 1

\* C3: a step of the pull's loop over the fetched orders leaves every Order
\* row that is unsynced when the step is taken in the Local Store, unchanged
C3_PullChecksAtApply ==
    [][\A c \in Callers :
          (pull[c].pc = "ordLoop" /\ pull'[c] # pull[c])
              => \A o \in orders : ~o.synced => o \in orders']_vars

\* the pushes that hold the backend's row for the local order `id`
Submitted(id) ==
    {p \in Pushers :
        /\ push[p].pc \in {"insertItems", "delete", "put", "deleteItems"}
        /\ push[p].localOrder.id = id}

\* C8: the push createOrderOffline starts in the background and the push of
\* a sync cycle never both create a remote order from the same local order
C8_NoDoubleSubmit ==
    \A o \in orders : Cardinality(Submitted(o.id)) <= 1

\* C9: a push creates a remote order only from a row whose id was minted on
\* the device, never from a row that carries an id the backend assigned
C9_PushCreatesOnlyLocalOrigin ==
    \A x \in origin : LocalOrigin(x[2])

\* C10: no Order row whose id starts with the local prefix has synced = true
C10_LocalIdNeverSynced ==
    \A o \in orders : LocalOrigin(o.id) => ~o.synced

\* the orders a push has still to attempt and those it has counted
PushAccount(ps) == Len(ps.queue) + ps.success + ps.failed

\* C11: when an iteration of the push ends in its catch, the order it
\* attempted is left in the Local Store with synced = false and the error in
\* sync_error, it is counted as failed and leaves the orders still to attempt,
\* and the push goes on with the next selected order; every selected order
\* leaves the orders to attempt exactly when it is counted, once
C11_FailureIsolated ==
    [][\A p \in Pushers :
          /\ (push[p].pc = "catch" /\ push'[p] # push[p]) =>
                LET lo == push[p].localOrder IN
                /\ \E r \in orders' :
                      r.id = lo.id /\ ~r.synced /\ r.sync_error = "error"
                /\ \A r \in orders' : r.id # lo.id => r \in orders
                /\ push'[p].failed = push[p].failed + 1
                /\ push'[p].queue = Tail(push[p].queue)
                /\ push'[p].pc = IF push'[p].queue = <<>> THEN "return"
                                 ELSE "items"
          /\ (push[p].pc \notin {"idle", "select"}
                /\ push'[p].pc \notin {"idle", "select"}) =>
                PushAccount(push'[p]) = PushAccount(push[p])]_vars

\* a push attempts the second order it selected after the first has failed
C11_Witness ==
    \E p \in Pushers :
        /\ push[p].failed = 1
        /\ push[p].pc = "insertOrder"
        /\ \E r \in orders : r.sync_error = "error" /\ ~r.synced
                              /\ r.id # push[p].localOrder.id

\* C12: the step of a sync cycle that writes the last-sync timestamp is taken
\* only after a pull in which no remote select was answered with an error
C12_StampOnlyAfterCleanPull ==
    [][\A c \in Callers :
          (syncPc[c] = "pull" /\ syncPc'[c] = "stamped")
              => ~pull[c].fetchError]_vars

\* C13: a call of performFullSync that got past the busy guard ends either
\* as completed or in its own catch, never with an error passed to its
\* caller, and with the busy flag false; the flag is false whenever no call
\* is past the guard, so that the next call made online starts a cycle
C13_FlagReleased ==
    /\ [](Running = {} => ~isSyncing)
    /\ [][\A c \in Callers :
            (syncPc[c] # "idle" /\ syncPc'[c] = "idle") =>
                /\ ~isSyncing'
                /\ syncLog' \in {"Full sync completed", "Full sync error"}]_vars

\* a cycle whose push failed and whose pull threw has ended, and no call is
\* past the guard
C13_Witness ==
    /\ started = 1
    /\ Running = {}
    /\ ~isSyncing
    /\ syncLog = "Full sync error"
    /\ \E r \in orders : r.sync_error = "error"

\* the orders of the Local Store that have no counterpart on the backend
Unpushed == {o \in orders : \A r \in sb_orders : r.id # o.id}

\* C14: every order that has not reached the backend is in the set the push
\* selects, whatever status updates and sync cycles have run; without this
\* no later cycle can push the order, however fair the triggers and however
\* reliable the backend
C14_UnpushedStaysSelected ==
    \A o \in Unpushed : o \in PushSelection(orders)

\* C15: the handling of a realtime UPDATE notification leaves the status of
\* every unsynced Order row and the stock of every unsynced InventoryItem
\* row as they are, and leaves these rows unsynced
C15_LocalUnsyncedWins ==
    [][/\ \A r \in sb_orders :
            RealtimeOrderUpdate(r) =>
                \A o \in orders : ~o.synced =>
                    \E x \in orders' :
                        x.id = o.id /\ x.status = o.status /\ ~x.synced
       /\ \A r \in sb_inventory_items, t \in 0..now :
            RealtimeInventoryUpdate(r, t) =>
                \A i \in inventoryItems : ~i.synced =>
                    \E x \in inventoryItems' :
                        /\ x.id = i.id
                        /\ x.current_stock = i.current_stock
                        /\ ~x.synced]_vars

\* the OrderItem rows stored for the order `id`
ItemsOf(id) == {i \in orderItems : i.order_id = id}

C17_OfflineNumberReserved ==
    \A o \in orders :
        StartsWith(o.id, "local_") =>
            /\ o.order_number >= offlinePrefix
            /\ \A r \in sb_orders :
                  <<r.id, o.id>> \notin origin => r.order_number # o.order_number

C19_OnlineCreateRemoteFirst ==
    [][\A k \in Creators :
          (create[k].pc # "idle" /\ create'[k].pc = "idle" /\ onLine) =>
              \E r \in sb_orders' :
                  /\ <<r.id, create[k].order.id>> \in origin'
                  /\ \E o \in orders' :
                        /\ o.id = r.id
                        /\ o.order_number = r.order_number
                        /\ o.synced]_vars

\* the transitions of the order workflow
Allowed ==
    {<<"pending", "preparing">>, <<"preparing", "ready">>,
     <<"ready", "completed">>, <<"pending", "cancelled">>}

\* C20: every change of the status of an Order row of the Local Store or of
\* the backend made by the status update operations is a transition of the
\* order workflow
C20_OnlyAllowedTransitions ==
    [][/\ \A o \in orders : \A x \in orders' :
            (x.id = o.id /\ x.status # o.status)
                => <<o.status, x.status>> \in Allowed
       /\ \A o \in sb_orders : \A x \in sb_orders' :
            (x.id = o.id /\ x.status # o.status)
                => <<o.status, x.status>> \in Allowed]_vars

\* C21: when a call of the pull returns after an earlier call returned, the
\* backend having answered every select of both and nothing else having
\* written to the Local Store, the tables of the Local Store (orders, order
\* items, menu items, inventory items, daily closings, stock verifications)
\* are what they were when the earlier call returned
C21_PullIdempotent ==
    \A c \in Callers :
        (/\ pull[c].pc = "return"
         /\ ~pull[c].fetchError
         /\ pulled.n >= 1
         /\ pulled.clean)
        => Store = pulled.store

C23_PullNeverClears ==
    \A c \in Callers :
        (pulled.n >= 1 /\ pull[c].pc \notin {"idle", "throw"})
        => /\ \A r \in pulled.store.menuItems :
                 (\E x \in sb_menu_items : x.id = r.id /\ x.is_available)
                 => Has(menuItems, r.id)
           /\ \A r \in pulled.store.inventoryItems :
                 (\E x \in sb_inventory_items : x.id = r.id /\ x.is_active)
                 => Has(inventoryItems, r.id)

\* C24: a last-sync timestamp exists throughout; the orders that a pull has
\* fetched from the backend all have updated_at greater than it
C24_DeltaPull ==
    \A c \in Callers :
        pull[c].pc = "ordRead"
        => \A r \in pull[c].data : r.updated_at > lastSyncTime

\* C25: a step that removes an order from the Local Store leaves no order
\* item whose order_id is the id of the removed order
C25_DeleteCascades ==
    [][\A o \in orders :
          ~Has(orders', o.id) => \A i \in orderItems' : i.order_id # o.id]_vars

\* C26: once the order made from the cart is in the Local Store, after its
\* creation, after its push and after its pull, its total_amount is the sum
\* of the total_price of the order items stored for it minus its
\* discount_amount
C26_TotalConsistent ==
    bill.stage # "none"
    => bill.total_amount = SumOf(bill.items) - bill.discount_amount

\* C27: no two daily closings of the Local Store have the same closing_date
C27_ClosingDateUnique ==
    \A a, b \in dailyClosings : a.closing_date = b.closing_date => a = b

\* C28: an operation leaves the pending operation queue only when the
\* backend has confirmed both its order and its order items
C28_RemovedOnlyWhenApplied ==
    [][\A n \in DOMAIN pending :
          (\A m \in DOMAIN pending' : pending'[m].id # pending[n].id)
          => /\ <<pending[n].id, "order">> \in applied
             /\ <<pending[n].id, "items">> \in applied]_vars

\* C29: setCache(k, X) stores X with the expiry now + TTL(k); a getCache(k)
\* before that expiry returns the stored X and leaves the entries; a
\* getCache(k) once the TTL has elapsed (the clock has reached the expiry)
\* returns a miss and removes the value and the expiry of k; with no expiry
\* stored, getCache(k) returns a miss
C29_CacheTTL ==
    [][\A k \in CacheKeys :
          /\ \A x \in CacheValues :
                setCache(k, x)
                => /\ cacheStore'.data[k] = x
                   /\ cacheStore'.expiry[k] = now + duration(k)
          /\ getCache(k)
             => IF cacheStore.expiry[k] = NoExpiry
                THEN ret'.value = Null
                ELSE IF now < cacheStore.expiry[k]
                THEN /\ ret'.value = cacheStore.data[k]
                     /\ cacheStore' = cacheStore
                ELSE /\ ret'.value = Null
                     /\ cacheStore'.data[k] = Null
                     /\ cacheStore'.expiry[k] = NoExpiry]_vars

\* C30: at every clock value, a call of getCache(k) returns a value exactly
\* when isCacheValid(k) is true as it is called, that is when an expiry is
\* stored for k and now < expiry
C30_ValueIffValid ==
    [][\A k \in CacheKeys :
          getCache(k) => ((ret'.value # Null) <=> isCacheValid(k))]_vars

\* the entity whose name a cache key starts with ("none" when it starts
\* with no entity's name)
EntityOf(key) ==
    CASE key = "menuItems" -> "menuItems"
      [] key \in {"orders-all", "orders-pending"} -> "orders"
      [] OTHER -> "none"

\* C31: setCache(k, x) gives k the duration of the entity its key starts
\* with ('orders-all' and 'orders-pending' the 5 minutes of orders), and
\* the default duration only when the key starts with no entity's name
C31_DurationByPrefix ==
    [][\A k \in CacheKeys : \A x \in CacheValues :
          setCache(k, x)
          => cacheStore'.expiry[k] =
                now + (IF EntityOf(k) = "none"
                       THEN CACHE_DURATIONS["default"]
                       ELSE CACHE_DURATIONS[EntityOf(k)])]_vars

\* the debounce timers that are armed
DebounceTimers == {t \in auto.timers : t.kind = "debounce"}

C33_NoCycleAfterTeardown ==
    [][\A t \in auto.timers :
          (auto.torn /\ TimerFire(t)) => started' = started]_vars

\* C34: when 'sync now' has shown its success message, the call of
\* performFullSync it awaited ran a cycle that completed without error; it
\* was neither dropped or skipped nor a cycle that failed
C34_SuccessOnlyAfterSuccess ==
    [][HandleSyncReturn /\ hs'.toast = "Synced successfully!"
       => outcome["manual"] = "completed"]_vars

\* C35: the prices of every cart item match the bill type of the cart:
\* under 'estimate' gstPercentage and gstAmount are 0 and totalPrice is
\* unitPrice * quantity; under 'tax_invoice' gstAmount is
\* unitPrice * quantity * gst_percentage / 100 with the gst_percentage of
\* the item's menu item, and totalPrice is unitPrice * quantity + gstAmount
C35_PricesMatchBillType ==
    \A n \in DOMAIN cart.items :
       LET item == cart.items[n]
       IN IF cart.billType = "estimate"
          THEN /\ item.gstPercentage = 0
               /\ item.gstAmount = 0
               /\ item.totalPrice = item.unitPrice * item.quantity
          ELSE /\ item.gstAmount =
                     (item.unitPrice * item.quantity
                        * item.menuItem.gst_percentage) \div 100
               /\ item.totalPrice =
                     item.unitPrice * item.quantity + item.gstAmount

\* C36: the inventory push marks a stock item synced only when the
\* current_stock of its local row still is the value the push has sent
C36_MarkOnlyWhatWasSent ==
    [][\A c \in Callers :
          InvMark(c)
          => Get(inventoryItems, Head(invPush[c].queue).id).current_stock
                = Head(invPush[c].queue).current_stock]_vars

\* C37: when the push writes an order under its remote id and the status of
\* the order was changed while the push held the row it had read, the row
\* written carries the changed status with synced = false, or the order on
\* the backend carries the changed status
C37_StatusChangeKept ==
    [][\A p \in Pushers :
          (PushPut(p) /\ changed.id = push[p].localOrder.id)
          => LET id == push[p].newOrder.id
             IN \/ /\ Get(orders', id).status = changed.status
                   /\ ~Get(orders', id).synced
                \/ \E r \in sb_orders' :
                      r.id = id /\ r.status = changed.status]_vars

\* C38: the status update marks the row synced only when the backend has
\* answered its update of the status without an error
C38_MarkedOnlyWhenConfirmed ==
    [][UpdateStatusMark => su.answer = "ok"]_vars

\* C39: any two orders of the Local Store that createOrderOffline has
\* created have distinct order numbers
C39_DistinctOrderNumbers ==
    \A a, b \in orders :
       (a.id # b.id /\ StartsWith(a.id, "local_") /\ StartsWith(b.id, "local_"))
       => a.order_number # b.order_number

====
